---- MODULE Spec2Model ----
(***************************************************************************)
(* Environment resolution of PythonAliasManager: VenvDetector.detect_venv, *)
(* the manifest parsers of DependencyManager, and the reconciliation of    *)
(* PythonAliasManager.check_dependencies / EnvironmentSetup.               *)
(*                                                                         *)
(* Text is modelled at character level: a string is a sequence of          *)
(* one-character strings, a file is a sequence of lines.                   *)
(***************************************************************************)
EXTENDS Integers, Sequences, FiniteSets, TLC

VARIABLES
    depth,        \* number of proper ancestors of the script's directory (0: it is the root)
    fs,           \* the filesystem: the set of existing paths around the script
    content,      \* lines of the manifest that is read in the script's directory
    readable,     \* whether open() of that manifest succeeds
    venv_info,    \* the dictionary returned by the last detect_venv
    parsed,       \* the list returned by the last parse_requirements_file
    sysPkgs,      \* packages installed for sys.executable, the calling interpreter
    venvPkgs,     \* packages of each isolated environment that has an interpreter
    condaPkgs,    \* packages of each environment registered with conda
    condaAvailable, \* whether `conda --version` succeeds
    report,       \* what the last check_dependencies / auto_setup_dependencies did
    pc,           \* which operation has run
    aliases,      \* PythonAliasManager.aliases, the alias map in memory
    config_file,  \* ~/.python_aliases/aliases.json
    batch_dir,    \* ~/.python_aliases/bin: the launcher of each file name in it
    history       \* the last add_alias / remove_alias and what it returned

world == <<sysPkgs, venvPkgs, condaPkgs, condaAvailable>>

store == <<aliases, config_file, batch_dir, history>>

vars == <<depth, fs, content, readable, venv_info, parsed, world, report, pc, store>>

(***************************************************************************)
(* Bounds of the explored inputs.                                          *)
(***************************************************************************)
MaxDepth == 4
MaxFiles == 2

(***************************************************************************)
(* The filesystem.  A path is a tuple: <<level, name>> is the entry `name` *)
(* of the directory `level` hops above the script's directory (level 0 is  *)
(* the script's directory), <<level, name, sub>> is the file `sub` inside  *)
(* the directory <<level, name>>.                                          *)
(***************************************************************************)
VenvNames == <<"venv", "env", ".venv", ".env">>

ActivateScripts == <<"Scripts/activate", "Scripts/activate.bat", "bin/activate">>

CondaEnvFiles == <<"environment.yml", "environment.yaml", "conda.yml", "conda.yaml">>

\* The plain manifests with the lock file moved to the front.
RequirementsFiles_LockFirst ==
    <<"poetry.lock", "requirements.txt", "pyproject.toml", "setup.py">>

\* venv_detector.py lines 61-66, in the order of the list
RequirementsFiles == <<"requirements.txt", "pyproject.toml", "setup.py", "poetry.lock">>

Range(s) == {s[i] : i \in DOMAIN s}

\* Path.exists() on the filesystem F: the path itself, or something below it, is there.
Exists(F, p) ==
    \E q \in F : Len(q) >= Len(p) /\ SubSeq(q, 1, Len(p)) = p

\* Path.is_dir() for an environment candidate.
IsDir(F, p) == Exists(F, p)

(***************************************************************************)
(* Strings.                                                                *)
(***************************************************************************)
Lower == <<"a", "b", "c", "d", "e", "f", "g", "h", "i", "j", "k", "l", "m",
           "n", "o", "p", "q", "r", "s", "t", "u", "v", "w", "x", "y", "z">>

Upper == <<"A", "B", "C", "D", "E", "F", "G", "H", "I", "J", "K", "L", "M",
           "N", "O", "P", "Q", "R", "S", "T", "U", "V", "W", "X", "Y", "Z">>

Digits == {"0", "1", "2", "3", "4", "5", "6", "7", "8", "9"}

\* \s of the re module, as far as the modelled files use it.
Whitespace == {" ", "\t"}

Alnum == Range(Lower) \cup Range(Upper) \cup Digits

\* [a-zA-Z0-9]
IsAlnum(c) == c \in Alnum

NameChars == Alnum \cup {".", "_", "-"}

\* [a-zA-Z0-9._-]
IsNameChar(c) == c \in NameChars

\* str.lower() of one character
LowerChar(c) ==
    IF c \in Range(Upper)
    THEN Lower[CHOOSE i \in DOMAIN Upper : Upper[i] = c]
    ELSE c

\* str.lower()
ToLower(s) == [i \in DOMAIN s |-> LowerChar(s[i])]

\* s[i:] with a 1-based i
From(s, i) == SubSeq(s, i, Len(s))

\* str.startswith(prefix)
StartsWith(s, prefix) ==
    Len(s) >= Len(prefix) /\ SubSeq(s, 1, Len(prefix)) = prefix

\* prefix matched at the 1-based position i of s
MatchesAt(s, i, prefix) ==
    i + Len(prefix) - 1 <= Len(s) /\ SubSeq(s, i, i + Len(prefix) - 1) = prefix

\* `sub in s`
Contains(s, sub) == \E i \in 1..(Len(s) + 1) : MatchesAt(s, i, sub)

RECURSIVE LStrip(_, _)
LStrip(s, chars) ==
    IF s # <<>> /\ Head(s) \in chars THEN LStrip(Tail(s), chars) ELSE s

RECURSIVE RStrip(_, _)
RStrip(s, chars) ==
    IF s # <<>> /\ s[Len(s)] \in chars
    THEN RStrip(SubSeq(s, 1, Len(s) - 1), chars)
    ELSE s

\* str.strip(chars)
StripChars(s, chars) == RStrip(LStrip(s, chars), chars)

\* str.strip()
Strip(s) == StripChars(s, Whitespace)

\* The 1-based position after the run of `chars` that starts at i (a greedy c*).
RECURSIVE SkipWhile(_, _, _)
SkipWhile(s, i, chars) ==
    IF i <= Len(s) /\ s[i] \in chars THEN SkipWhile(s, i + 1, chars) ELSE i

\* The 1-based position after the run starting at i of characters not in `chars`.
RECURSIVE SkipUntil(_, _, _)
SkipUntil(s, i, chars) ==
    IF i <= Len(s) /\ s[i] \notin chars THEN SkipUntil(s, i + 1, chars) ELSE i

(***************************************************************************)
(* VenvDetector (venv_detector.py).                                        *)
(*                                                                         *)
(* The dictionary venv_info is a record with one field per key; a key that *)
(* was never assigned holds the empty value of its field (<<>>, "" or 0).  *)
(* No assignment of the code stores an empty value, so "all fields empty"  *)
(* is the empty dictionary, which detect_venv returns as None.             *)
(***************************************************************************)
NoInfo ==
    [path |-> <<>>, type |-> "", activate_script |-> <<>>,
     conda_env_file |-> <<>>, conda_env_name |-> <<>>,
     requirements_file |-> <<>>, parent_level |-> 0]

\* range(3) of the ancestor walk
MaxParentLevels == 3

\* re.search(r'name:\s*([^\s#]+)', line): the captured group of the leftmost
\* match, <<>> when there is no match.
NameSearch(line) ==
    LET tok == <<"n", "a", "m", "e", ":">>
        stop == Whitespace \cup {"#"}
        start(i) == SkipWhile(line, i + Len(tok), Whitespace)
        ok(i) == MatchesAt(line, i, tok)
                   /\ start(i) <= Len(line) /\ line[start(i)] \notin stop
        hits == {i \in 1..Len(line) : ok(i)}
    IN  IF hits = {} THEN <<>>
        ELSE LET i == CHOOSE h \in hits : \A k \in hits : h <= k
             IN  SubSeq(line, start(i), SkipUntil(line, start(i), stop) - 1)

\* parse_conda_env_name.  None and '' are both <<>>: every caller only tests
\* the result for truth.
RECURSIVE parse_conda_env_name(_)
parse_conda_env_name(lines) ==
    IF lines = <<>> THEN <<>>
    ELSE LET line == Strip(Head(lines))
         IN  IF StartsWith(line, <<"n", "a", "m", "e", ":">>) /\ NameSearch(line) # <<>>
             THEN StripChars(NameSearch(line), {"\"", "'"})
             ELSE parse_conda_env_name(Tail(lines))

\* The first existing activate script of venv_path, <<>> when there is none.
FirstActivate(F, venv_path) ==
    LET found == {i \in DOMAIN ActivateScripts :
                     Exists(F, venv_path \o <<ActivateScripts[i]>>)}
    IN  IF found = {} THEN <<>>
        ELSE venv_path \o
             <<ActivateScripts[CHOOSE i \in found : \A k \in found : i <= k]>>

\* The first existing file of `names` in the directory `level`, <<>> when none.
FirstExisting(F, level, names) ==
    LET found == {i \in DOMAIN names : Exists(F, <<level, names[i]>>)}
    IN  IF found = {} THEN <<>>
        ELSE <<level, names[CHOOSE i \in found : \A k \in found : i <= k]>>

\* Tier 1 recording the path of every candidate directory, with the type only
\* for those that hold an activate script.
RECURSIVE ScanScriptDir_AnyDirectory(_, _, _)
ScanScriptDir_AnyDirectory(F, info, i) ==
    IF i > Len(VenvNames) THEN info
    ELSE LET venv_path == <<0, VenvNames[i]>>
             hit == IsDir(F, venv_path) /\ FirstActivate(F, venv_path) # <<>>
         IN  ScanScriptDir_AnyDirectory(F,
                 IF hit
                 THEN [info EXCEPT !.path = venv_path, !.type = "venv",
                                   !.activate_script = FirstActivate(F, venv_path)]
                 ELSE IF IsDir(F, venv_path) THEN [info EXCEPT !.path = venv_path]
                 ELSE info,
                 i + 1)

\* Tier 1 (lines 24-40): every candidate is visited; the `break` only leaves
\* the loop over the activate scripts.
RECURSIVE ScanScriptDir(_, _, _)
ScanScriptDir(F, info, i) ==
    IF i > Len(VenvNames) THEN info
    ELSE LET venv_path == <<0, VenvNames[i]>>
             hit == IsDir(F, venv_path) /\ FirstActivate(F, venv_path) # <<>>
         IN  ScanScriptDir(F,
                 IF hit
                 THEN [info EXCEPT !.path = venv_path, !.type = "venv",
                                   !.activate_script = FirstActivate(F, venv_path)]
                 ELSE info,
                 i + 1)

\* Tier 2 as the design text words it: the kind is set only if tier 1 left it unset.
CheckCondaFiles_KeepKind(F, info, lines) ==
    LET conda_env_file == FirstExisting(F, 0, CondaEnvFiles)
        conda_env_name == parse_conda_env_name(lines)
    IN  IF conda_env_file = <<>> THEN info
        ELSE [info EXCEPT !.conda_env_file = conda_env_file,
                          !.conda_env_name = conda_env_name,
                          !.type = IF info.type = "" THEN "conda" ELSE @]

\* Tier 2 (lines 43-58): the type is assigned on every file match.
CheckCondaFiles(F, info, lines) ==
    LET conda_env_file == FirstExisting(F, 0, CondaEnvFiles)
        conda_env_name == parse_conda_env_name(lines)
    IN  IF conda_env_file = <<>> THEN info
        ELSE [info EXCEPT !.conda_env_file = conda_env_file,
                          !.conda_env_name = conda_env_name,
                          !.type = "conda"]

\* Tier 3 without the test of line 72: the kind is assigned on every file match.
CheckRequirementsFiles_SetKind(F, info) ==
    LET req_file == FirstExisting(F, 0, RequirementsFiles)
    IN  IF req_file = <<>> THEN info
        ELSE [info EXCEPT !.requirements_file = req_file, !.type = "project"]

\* Tier 3 (lines 61-73)
CheckRequirementsFiles(F, info) ==
    LET req_file == FirstExisting(F, 0, RequirementsFiles)
    IN  IF req_file = <<>> THEN info
        ELSE [info EXCEPT !.requirements_file = req_file,
                          !.type = IF info.type = "" THEN "project" ELSE @]

\* The first valid candidate of the directory `level`, 0 when there is none.
FirstValidVenv(F, level) ==
    LET found == {i \in DOMAIN VenvNames :
                     /\ IsDir(F, <<level, VenvNames[i]>>)
                     /\ FirstActivate(F, <<level, VenvNames[i]>>) # <<>>}
    IN  IF found = {} THEN 0 ELSE CHOOSE i \in found : \A k \in found : i <= k

\* Tier 4 (lines 76-104), from the iteration `level` of the walk on.
\* parent_dir is the directory level + 1 hops up; it equals its own parent when
\* it is the root, which is `depth` hops up.
RECURSIVE SearchParents(_, _, _)
SearchParents(F, info, level) ==
    IF level >= MaxParentLevels \/ level + 1 >= depth THEN info
    ELSE LET i == FirstValidVenv(F, level + 1)
             venv_path == <<level + 1, VenvNames[i]>>
             req_file == FirstExisting(F, 0, RequirementsFiles)
         IN  IF i = 0 THEN SearchParents(F, info, level + 1)
             ELSE [info EXCEPT
                      !.path = venv_path, !.type = "venv",
                      !.activate_script = FirstActivate(F, venv_path),
                      !.parent_level = level + 1,
                      !.requirements_file = IF req_file # <<>> THEN req_file ELSE @]

\* detect_venv(script_path) on the filesystem F; `lines` is the content of
\* the managed-environment manifest that tier 2 reads.  NoInfo is None.
detect_venv(F, lines) ==
    LET t1 == ScanScriptDir(F, NoInfo, 1)
        t2 == CheckCondaFiles(F, t1, lines)
        t3 == CheckRequirementsFiles(F, t2)
    IN  IF t3.type # "venv" THEN SearchParents(F, t3, 0) ELSE t3

(***************************************************************************)
(* Interpreters and their packages.  An interpreter is sys.executable, the *)
(* python of an isolated environment (named by the environment's path) or  *)
(* the python of a conda environment (named by the environment's name).    *)
(***************************************************************************)
NoExe == [kind |-> "none", path |-> <<>>, name |-> <<>>]

SysExe == [kind |-> "sys", path |-> <<>>, name |-> <<>>]

VenvExe(venv_path) == [kind |-> "venv", path |-> venv_path, name |-> <<>>]

CondaExe(env_name) == [kind |-> "conda", path |-> <<>>, name |-> env_name]

\* The report of a run: the operation (op: "check" or "setup") and its install
\* flag, the returned value (ok) and the message it ended with (status), the
\* parsed required list, whether pip list ran and how it ended (inventory:
\* "none", "ok", "failed"), the names it printed (listed) and the set
\* get_installed_packages made of them (installed), the missing and the
\* satisfied packages, the interpreter queried (exe), the external commands
\* run, in order (calls), and whether every one of them succeeded (clean).
NoReport ==
    [op |-> "none", install |-> FALSE, ok |-> FALSE, status |-> "",
     required |-> <<>>, inventory |-> "none", installed |-> {}, missing |-> <<>>,
     satisfied |-> <<>>, exe |-> NoExe, calls |-> <<>>, clean |-> TRUE,
     listed |-> {}]

\* The state of the operations that touch no interpreter.
NoWorld ==
    /\ sysPkgs = {}
    /\ venvPkgs = <<>>
    /\ condaPkgs = <<>>
    /\ condaAvailable = FALSE
    /\ report = NoReport

\* The state of the operations that touch no alias: no aliases.json, an
\* empty launcher directory and the record of no operation.
NoAliasStore ==
    /\ aliases = <<>>
    /\ config_file = [kind |-> "missing", entries |-> <<>>]
    /\ batch_dir = <<>>
    /\ history = [op |-> "none", alias_name |-> <<>>, script_path |-> <<>>, ok |-> FALSE,
                  fresh |-> FALSE, before |-> <<>>, round |-> FALSE]

(***************************************************************************)
(* The explored filesystems: at most MaxFiles entries, drawn from the      *)
(* paths detect_venv looks at in the script's directory and its ancestors. *)
(***************************************************************************)
Min(a, b) == IF a <= b THEN a ELSE b

\* Environment candidates (the bare directory, or an activate script inside it)
\* of the script's directory and of its ancestors, up to one level above the
\* last one the ancestor walk visits.
EnvPaths(d) ==
    LET top == Min(d, MaxParentLevels + 1)
    IN  {<<l, VenvNames[i]>> : l \in 0..top, i \in DOMAIN VenvNames}
        \cup {<<l, VenvNames[i], a>> :
                 l \in 0..top, i \in DOMAIN VenvNames, a \in Range(ActivateScripts)}

\* Manifests of the script's directory, and plain manifests of the ancestors
\* the walk visits.
ManifestPaths(d) ==
    {<<0, f>> : f \in Range(CondaEnvFiles) \cup Range(RequirementsFiles)}
    \cup {<<l, f>> : l \in 1..Min(d, MaxParentLevels), f \in Range(RequirementsFiles)}

\* The subsets of U with at most k elements.
RECURSIVE UpTo(_, _)
UpTo(U, k) ==
    IF k = 0 THEN {{}}
    ELSE LET P == UpTo(U, k - 1) IN P \cup {s \cup {x} : s \in P, x \in U}

\* Contents of a managed-environment manifest, as far as detect_venv reads it.
NameTexts ==
    { << <<"n", "a", "m", "e", ":", " ", "m", "y", "e", "n", "v">> >>,
      << <<"d", "e", "p", "e", "n", "d", "e", "n", "c", "i", "e", "s", ":">> >> }

\* The lines a reader of the manifest gets to see.  Every reader opens the
\* file inside a try block whose handler prints the error and returns what
\* was collected before (parse_requirements_txt, parse_pyproject_toml,
\* parse_conda_env_dependencies, parse_conda_env_name): when open() raises,
\* no line is read.
Opened == IF readable THEN content ELSE <<>>

InitLocate ==
    /\ depth \in 0..MaxDepth
    /\ readable = TRUE
    /\ fs \in UpTo(EnvPaths(depth) \cup ManifestPaths(depth), MaxFiles)
    /\ content \in IF FirstExisting(fs, 0, CondaEnvFiles) # <<>> THEN NameTexts ELSE {<<>>}
    /\ venv_info = NoInfo
    /\ parsed = <<>>
    /\ NoWorld
    /\ NoAliasStore
    /\ pc = "start"

\* One call of detect_venv.
DetectVenv ==
    /\ pc = "start"
    /\ venv_info' = detect_venv(fs, Opened)
    /\ pc' = "detected"
    /\ UNCHANGED <<depth, fs, content, readable, parsed, world, report, store>>

SpecLocate == InitLocate /\ [][DetectVenv]_vars

(***************************************************************************)
(* Properties of detect_venv, stated on the filesystem itself.             *)
(***************************************************************************)
\* The directory `level` holds a candidate directory with an activate script.
HasValidEnv(level) ==
    \E p \in fs : Len(p) = 3 /\ p[1] = level
                    /\ p[2] \in Range(VenvNames) /\ p[3] \in Range(ActivateScripts)

\* The script's directory holds a managed-environment manifest.
HasCondaFile == \E p \in fs : Len(p) = 2 /\ p[1] = 0 /\ p[2] \in Range(CondaEnvFiles)

Detected == pc = "detected"

\* C1: a valid isolated environment in the script's own directory is returned
\* as kind Isolated (type 'venv') without parent_level, whatever manifests and
\* ancestor environments exist.
C1_InPlaceIsolatedWins ==
    (Detected /\ HasValidEnv(0)) =>
        (venv_info.type = "venv" /\ venv_info.parent_level = 0)

C4_NearestAncestorLevel2 ==
    (Detected /\ depth >= 2 /\ ~HasValidEnv(0) /\ ~HasValidEnv(1) /\ HasValidEnv(2)) =>
        /\ venv_info.type = "venv"
        /\ venv_info.parent_level = 2
        /\ venv_info.path # <<>> /\ venv_info.path[1] = 2

(***************************************************************************)
(* DependencyManager (dependency_manager.py): the manifest parsers.        *)
(* A file is the sequence of its lines, without the line ends.             *)
(***************************************************************************)
\* The last position in lo..hi of s that holds an alphanumeric, 0 when none:
\* where the greedy [a-zA-Z0-9._-]* stops giving characters back.
RECURSIVE BackToAlnum(_, _, _)
BackToAlnum(s, lo, hi) ==
    IF hi < lo THEN 0
    ELSE IF IsAlnum(s[hi]) THEN hi ELSE BackToAlnum(s, lo, hi - 1)

\* The pattern without the closing [a-zA-Z0-9]: the whole greedy run is the name.
NameMatch_NoBackOff(s) ==
    IF s = <<>> \/ ~IsAlnum(s[1]) THEN <<>>
    ELSE SubSeq(s, 1, SkipWhile(s, 2, NameChars) - 1)

\* re.match(r'^([a-zA-Z0-9][a-zA-Z0-9._-]*[a-zA-Z0-9]|[a-zA-Z0-9])', s):
\* group 1, <<>> when there is no match.  The first alternative is tried
\* first: the greedy run, backed off to its last alphanumeric; the second
\* alternative is the single first character.
NameMatch(s) ==
    IF s = <<>> \/ ~IsAlnum(s[1]) THEN <<>>
    ELSE LET run == SkipWhile(s, 2, NameChars) - 1
             last == BackToAlnum(s, 2, run)
         IN  IF last # 0 THEN SubSeq(s, 1, last) ELSE <<s[1]>>

\* parse_requirements_txt
RECURSIVE parse_requirements_txt(_)
parse_requirements_txt(lines) ==
    IF lines = <<>> THEN <<>>
    ELSE LET line == Strip(Head(lines))
             rest == parse_requirements_txt(Tail(lines))
         IN  IF line = <<>> \/ StartsWith(line, <<"#">>) THEN rest
             ELSE IF NameMatch(line) # <<>> THEN <<NameMatch(line)>> \o rest
             ELSE rest

\* re.search(r'dependencies\s*=\s*\[(.*?)\]', line): whether it matches, and
\* group 1 of the leftmost match (the lazy .*? ends at the first `]`).
DepsSearch(line) ==
    LET tok == <<"d", "e", "p", "e", "n", "d", "e", "n", "c", "i", "e", "s">>
        eq(i) == SkipWhile(line, i + Len(tok), Whitespace)
        br(i) == SkipWhile(line, eq(i) + 1, Whitespace)
        close(i) == SkipUntil(line, br(i) + 1, {"]"})
        ok(i) == /\ MatchesAt(line, i, tok)
                 /\ eq(i) <= Len(line) /\ line[eq(i)] = "="
                 /\ br(i) <= Len(line) /\ line[br(i)] = "["
                 /\ close(i) <= Len(line)
        hits == {i \in 1..Len(line) : ok(i)}
    IN  IF hits = {} THEN [ok |-> FALSE, group |-> <<>>]
        ELSE LET i == CHOOSE h \in hits : \A k \in hits : h <= k
             IN  [ok |-> TRUE, group |-> SubSeq(line, br(i) + 1, close(i) - 1)]

\* re.findall(r'"([^"]+)"', s) from the 1-based position i on.
RECURSIVE FindQuoted(_, _)
FindQuoted(s, i) ==
    LET q == SkipUntil(s, i, {"\""})
        e == SkipUntil(s, q + 1, {"\""})
    IN  IF q > Len(s) THEN <<>>
        ELSE IF e > q + 1 /\ e <= Len(s)
             THEN <<SubSeq(s, q + 1, e - 1)>> \o FindQuoted(s, e + 1)
             ELSE FindQuoted(s, q + 1)

\* The names of the quoted entries, entries without a leading name dropped.
RECURSIVE NamesOf(_)
NamesOf(deps) ==
    IF deps = <<>> THEN <<>>
    ELSE (IF NameMatch(Head(deps)) # <<>> THEN <<NameMatch(Head(deps))>> ELSE <<>>)
         \o NamesOf(Tail(deps))

\* re.match(r'^(<name>)\s*=', line): group 1, <<>> when there is no match.
\* Backing the name off further never helps: a shorter name is followed by a
\* name character, which is neither white space nor `=`.
PoetryMatch(line) ==
    LET name == NameMatch(line)
        eq == SkipWhile(line, Len(name) + 1, Whitespace)
    IN  IF name # <<>> /\ eq <= Len(line) /\ line[eq] = "=" THEN name ELSE <<>>

\* One iteration of the loop of parse_pyproject_toml (lines 51-92) on the
\* state st = [in_dependencies, in_project_dependencies, packages].
PyprojectLine(st, raw) ==
    LET line == Strip(raw)
        single == DepsSearch(line)
        quoted == FindQuoted(line, 1)
    IN  IF line = <<"[", "t", "o", "o", "l", ".", "p", "o", "e", "t", "r", "y", ".", "d", "e", "p", "e", "n", "d", "e", "n", "c", "i", "e", "s", "]">>
        THEN [st EXCEPT !.in_dependencies = TRUE]
        ELSE IF StartsWith(line, <<"[">>) /\ st.in_dependencies
        THEN [st EXCEPT !.in_dependencies = FALSE]
        ELSE IF Contains(line, <<"d", "e", "p", "e", "n", "d", "e", "n", "c", "i", "e", "s", " ", "=", " ", "[">>)
        THEN IF single.ok
             THEN [st EXCEPT !.in_project_dependencies = FALSE,
                             !.packages = @ \o NamesOf(FindQuoted(single.group, 1))]
             ELSE [st EXCEPT !.in_project_dependencies = TRUE]
        ELSE IF line = <<"]">> /\ st.in_project_dependencies
        THEN [st EXCEPT !.in_project_dependencies = FALSE]
        ELSE IF st.in_dependencies /\ Contains(line, <<"=">>) /\ ~StartsWith(line, <<"#">>)
        THEN IF PoetryMatch(line) # <<>> /\ PoetryMatch(line) # <<"p", "y", "t", "h", "o", "n">>
             THEN [st EXCEPT !.packages = Append(@, PoetryMatch(line))]
             ELSE st
        ELSE IF st.in_project_dependencies /\ Contains(line, <<"\"">>)
        THEN IF quoted # <<>>
             THEN [st EXCEPT !.packages = @ \o NamesOf(<<Head(quoted)>>)]
             ELSE st
        ELSE st

RECURSIVE PyprojectLoop(_, _)
PyprojectLoop(st, lines) ==
    IF lines = <<>> THEN st
    ELSE PyprojectLoop(PyprojectLine(st, Head(lines)), Tail(lines))

\* parse_pyproject_toml
parse_pyproject_toml(lines) ==
    PyprojectLoop([in_dependencies |-> FALSE, in_project_dependencies |-> FALSE,
                   packages |-> <<>>], lines).packages

\* One iteration of the loop of parse_conda_env_dependencies (lines 109-135)
\* on the state st = [in_dependencies, in_pip_section, packages].  The line is
\* stripped first, so the tests on leading blanks see none.
CondaLine(st, raw) ==
    LET line == Strip(raw)
        ends == /\ line # <<>> /\ ~StartsWith(line, <<" ">>)
                /\ ~StartsWith(line, <<"-">>) /\ st.in_dependencies
        s1 == IF ends THEN [st EXCEPT !.in_dependencies = FALSE, !.in_pip_section = FALSE]
              ELSE st
        dep2 == Strip(From(line, 3))
        dep4 == Strip(From(line, 5))
    IN  IF StartsWith(line, <<"d", "e", "p", "e", "n", "d", "e", "n", "c", "i", "e", "s", ":">>)
        THEN [st EXCEPT !.in_dependencies = TRUE]
        ELSE IF s1.in_dependencies /\ StartsWith(line, <<"-", " ">>)
        THEN IF dep2 = <<"p", "i", "p", ":">> THEN [s1 EXCEPT !.in_pip_section = TRUE]
             ELSE IF ~s1.in_pip_section
                     /\ NameMatch(dep2) # <<>> /\ NameMatch(dep2) # <<"p", "y", "t", "h", "o", "n">>
             THEN [s1 EXCEPT !.packages = Append(@, NameMatch(dep2))]
             ELSE s1
        ELSE IF s1.in_dependencies /\ s1.in_pip_section /\ StartsWith(line, <<" ", " ", "-", " ">>)
        THEN IF NameMatch(dep4) # <<>>
             THEN [s1 EXCEPT !.packages = Append(@, NameMatch(dep4))]
             ELSE s1
        ELSE s1

RECURSIVE CondaLoop(_, _)
CondaLoop(st, lines) ==
    IF lines = <<>> THEN st
    ELSE CondaLoop(CondaLine(st, Head(lines)), Tail(lines))

\* parse_conda_env_dependencies
parse_conda_env_dependencies(lines) ==
    CondaLoop([in_dependencies |-> FALSE, in_pip_section |-> FALSE,
               packages |-> <<>>], lines).packages

\* The candidates with the plain manifests before the managed ones.
get_requirements_files_PlainFirst == RequirementsFiles \o CondaEnvFiles

\* get_requirements_files: the candidates in priority order
get_requirements_files == CondaEnvFiles \o RequirementsFiles

\* find_requirements_file(script_dir), <<>> for None
find_requirements_file(F) == FirstExisting(F, 0, get_requirements_files)

\* parse_requirements_file: the parser is chosen by the file name; other
\* names are reported as unsupported and give [].
parse_requirements_file(requirements_file, lines) ==
    LET name == requirements_file[2]
    IN  IF name = "requirements.txt" THEN parse_requirements_txt(lines)
        ELSE IF name = "pyproject.toml" THEN parse_pyproject_toml(lines)
        ELSE IF name \in Range(CondaEnvFiles) THEN parse_conda_env_dependencies(lines)
        ELSE <<>>

(***************************************************************************)
(* The explored manifests: up to a bounded number of lines, each drawn     *)
(* from a small set of lines of the format.                                *)
(***************************************************************************)
MaxReqLines == 4
MaxTomlLines == 4
MaxCondaLines == 5

\* The sequences over S of length at most n.
SeqsUpTo(S, n) == UNION {[1..k -> S] : k \in 0..n}

ReqLines ==
    { <<"f", "l", "a", "s", "k", "=", "=", "2", ".", "0", ".", "1">>,
      <<"#", " ", "c", "o", "m", "m", "e", "n", "t">>,
      <<>>,
      <<"n", "u", "m", "p", "y", ">", "=", "1", ".", "2", "0">>,
      <<" ", " ", "F", "l", "a", "s", "k", "-", "S", "Q", "L", "A", "l", "c", "h", "e", "m", "y", "~", "=", "2", ".", "5", " ">>,
      <<"-", "r", " ", "b", "a", "s", "e", ".", "t", "x", "t">>,
      <<"x">>,
      <<"p", "k", "g", "-", "_", ".">> }

TomlLines ==
    { <<"[", "p", "r", "o", "j", "e", "c", "t", "]">>,
      <<"d", "e", "p", "e", "n", "d", "e", "n", "c", "i", "e", "s", " ", "=", " ", "[", "\"", "r", "e", "q", "u", "e", "s", "t", "s", ">", "=", "2", ".", "0", "\"", ",", " ", "\"", "c", "l", "i", "c", "k", "\"", "]">>,
      <<"d", "e", "p", "e", "n", "d", "e", "n", "c", "i", "e", "s", " ", "=", " ", "[", "\"", "u", "v", "i", "c", "o", "r", "n", "[", "s", "t", "a", "n", "d", "a", "r", "d", "]", "\"", ",", " ", "\"", "c", "l", "i", "c", "k", "\"", "]">>,
      <<"d", "e", "p", "e", "n", "d", "e", "n", "c", "i", "e", "s", " ", "=", " ", "[">>,
      <<" ", " ", " ", " ", "\"", "r", "e", "q", "u", "e", "s", "t", "s", ">", "=", "2", ".", "0", "\"", ",">>,
      <<" ", " ", " ", " ", "\"", "c", "l", "i", "c", "k", "\"", ",", " ", "\"", "r", "i", "c", "h", "\"", ",">>,
      <<"]">>,
      <<"[", "t", "o", "o", "l", ".", "p", "o", "e", "t", "r", "y", ".", "d", "e", "p", "e", "n", "d", "e", "n", "c", "i", "e", "s", "]">>,
      <<"p", "y", "t", "h", "o", "n", " ", "=", " ", "\"", "^", "3", ".", "8", "\"">>,
      <<"r", "e", "q", "u", "e", "s", "t", "s", " ", "=", " ", "\"", "^", "2", ".", "0", "\"">> }

CondaLines ==
    { <<"n", "a", "m", "e", ":", " ", "m", "y", "e", "n", "v">>,
      <<"d", "e", "p", "e", "n", "d", "e", "n", "c", "i", "e", "s", ":">>,
      <<"-", " ", "p", "y", "t", "h", "o", "n", "=", "3", ".", "9">>,
      <<"-", " ", "n", "u", "m", "p", "y">>,
      <<"-", " ", "p", "i", "p", ":">>,
      <<" ", " ", "-", " ", "t", "o", "r", "c", "h">>,
      <<" ", " ", "#", " ", "b", "u", "i", "l", "d", " ", "t", "o", "o", "l", "s">>,
      <<"c", "h", "a", "n", "n", "e", "l", "s", ":">>,
      <<>> }

InitParse(file, lines) ==
    /\ depth = 1
    /\ readable = TRUE
    /\ fs = {<<0, file>>}
    /\ content \in lines
    /\ venv_info = NoInfo
    /\ parsed = <<>>
    /\ NoWorld
    /\ NoAliasStore
    /\ pc = "start"

\* parse_requirements_file(find_requirements_file(script_dir))
ParseManifest ==
    /\ pc = "start"
    /\ find_requirements_file(fs) # <<>>
    /\ parsed' = parse_requirements_file(find_requirements_file(fs), Opened)
    /\ pc' = "parsed"
    /\ UNCHANGED <<depth, fs, content, readable, venv_info, world, report, store>>

SpecParseReq ==
    InitParse("requirements.txt", SeqsUpTo(ReqLines, MaxReqLines)) /\ [][ParseManifest]_vars

SpecParseToml ==
    InitParse("pyproject.toml", SeqsUpTo(TomlLines, MaxTomlLines)) /\ [][ParseManifest]_vars

SpecParseConda ==
    InitParse("environment.yml", SeqsUpTo(CondaLines, MaxCondaLines)) /\ [][ParseManifest]_vars

(***************************************************************************)
(* Properties of the parsers, stated on the text of the manifest.          *)
(***************************************************************************)
Parsed == pc = "parsed"

\* s without its leading and trailing blanks, by positions.
Trimmed(s) ==
    LET solid == {i \in 1..Len(s) : s[i] \notin Whitespace}
    IN  IF solid = {} THEN <<>>
        ELSE SubSeq(s, CHOOSE i \in solid : \A k \in solid : i <= k,
                       CHOOSE i \in solid : \A k \in solid : i >= k)

\* The leading name token of s: its longest prefix of name characters that
\* starts and ends with an alphanumeric; <<>> when s has none.
LeadingToken(s) ==
    LET ends == {k \in 1..Len(s) :
                    /\ IsAlnum(s[1]) /\ IsAlnum(s[k])
                    /\ \A j \in 1..k : IsNameChar(s[j])}
    IN  IF ends = {} THEN <<>>
        ELSE SubSeq(s, 1, CHOOSE k \in ends : \A j \in ends : k >= j)

\* The number of blanks s starts with.
Indent(s) == SkipWhile(s, 1, {" "}) - 1

\* The lines of a plain-list manifest that carry a requirement, and their names.
RECURSIVE NamesOfPlainList(_)
NamesOfPlainList(lines) ==
    IF lines = <<>> THEN <<>>
    ELSE LET t == Trimmed(Head(lines))
             skip == t = <<>> \/ t[1] = "#" \/ LeadingToken(t) = <<>>
         IN  (IF skip THEN <<>> ELSE <<LeadingToken(t)>>)
             \o NamesOfPlainList(Tail(lines))

PlainListExample ==
    << <<"f", "l", "a", "s", "k", "=", "=", "2", ".", "0", ".", "1">>, <<"#", " ", "c", "o", "m", "m", "e", "n", "t">>, <<>>, <<"n", "u", "m", "p", "y", ">", "=", "1", ".", "2", "0">> >>

\* C10: parsing a plain-list manifest yields, in file order, the leading name
\* token of every line that is neither blank nor a comment and has one, and
\* nothing for the other lines; the example yields exactly [flask, numpy].
C10_PlainListNames ==
    Parsed =>
        /\ parsed = NamesOfPlainList(content)
        /\ content = PlainListExample => parsed = << <<"f", "l", "a", "s", "k">>, <<"n", "u", "m", "p", "y">> >>

\* C10 witness: the example manifest has been parsed.
C10_Witness ==
    Parsed /\ content = PlainListExample /\ Len(parsed) = 2

\* A managed-environment manifest that is a `dependencies:` line followed by
\* list items only.
ItemsOnly(lines) ==
    /\ lines # <<>> /\ Head(lines) = <<"d", "e", "p", "e", "n", "d", "e", "n", "c", "i", "e", "s", ":">>
    /\ \A i \in 2..Len(lines) : StartsWith(Trimmed(lines[i]), <<"-", " ">>)

\* The names the items of such a manifest declare: st.pip is the indentation
\* of the `- pip:` item whose sub-list is open, -1 when none is.
RECURSIVE NamesOfItems(_, _)
NamesOfItems(lines, pip) ==
    IF lines = <<>> THEN <<>>
    ELSE LET item == Trimmed(From(Trimmed(Head(lines)), 3))
             nested == pip >= 0 /\ Indent(Head(lines)) > pip
             name == LeadingToken(item)
         IN  IF nested
             THEN (IF name # <<>> THEN <<name>> ELSE <<>>)
                  \o NamesOfItems(Tail(lines), pip)
             ELSE IF item = <<"p", "i", "p", ":">>
             THEN NamesOfItems(Tail(lines), Indent(Head(lines)))
             ELSE (IF name # <<>> /\ name # <<"p", "y", "t", "h", "o", "n">> THEN <<name>> ELSE <<>>)
                  \o NamesOfItems(Tail(lines), -1)

CondaExample ==
    << <<"d", "e", "p", "e", "n", "d", "e", "n", "c", "i", "e", "s", ":">>, <<"-", " ", "p", "y", "t", "h", "o", "n", "=", "3", ".", "9">>, <<"-", " ", "n", "u", "m", "p", "y">>, <<"-", " ", "p", "i", "p", ":">>, <<" ", " ", "-", " ", "t", "o", "r", "c", "h">> >>

\* C2: the items directly under `dependencies:` except python, plus the items
\* nested under a `- pip:` item, are yielded in file order; the example yields
\* exactly [numpy, torch].
C2_CondaItemsAndPipItems ==
    (Parsed /\ ItemsOnly(content)) =>
        /\ parsed = NamesOfItems(Tail(content), -1)
        /\ content = CondaExample => parsed = << <<"n", "u", "m", "p", "y">>, <<"t", "o", "r", "c", "h">> >>

\* The quoted entries of s: the text between the 1st and 2nd, 3rd and 4th, ...
\* double quote.
QuotedEntries(s) ==
    LET quotes == {i \in 1..Len(s) : s[i] = "\""}
        rank(i) == Cardinality({q \in quotes : q <= i})
        opens == {q \in quotes : rank(q) % 2 = 1 /\ \E c \in quotes : c > q}
        close(q) == CHOOSE c \in quotes : rank(c) = rank(q) + 1
        nth(n) == CHOOSE q \in opens : rank(q) = 2 * n - 1
    IN  [n \in 1..Cardinality(opens) |-> SubSeq(s, nth(n) + 1, close(nth(n)) - 1)]

RECURSIVE TokensOf(_)
TokensOf(entries) ==
    IF entries = <<>> THEN <<>>
    ELSE (IF LeadingToken(Head(entries)) # <<>> THEN <<LeadingToken(Head(entries))>>
          ELSE <<>>) \o TokensOf(Tail(entries))

RECURSIVE EntriesOfLines(_)
EntriesOfLines(lines) ==
    IF lines = <<>> THEN <<>>
    ELSE QuotedEntries(Head(lines)) \o EntriesOfLines(Tail(lines))

\* A manifest that is one single-line `dependencies = [ ... ]` array.
SingleLineArray(lines) ==
    /\ Len(lines) = 1
    /\ StartsWith(lines[1], <<"d", "e", "p", "e", "n", "d", "e", "n", "c", "i", "e", "s", " ", "=", " ", "[">>)
    /\ lines[1][Len(lines[1])] = "]"

\* A manifest that is one multi-line array: the opening line, lines of quoted
\* entries, and a line consisting solely of `]`.
MultiLineArray(lines) ==
    /\ Len(lines) >= 2
    /\ lines[1] = <<"d", "e", "p", "e", "n", "d", "e", "n", "c", "i", "e", "s", " ", "=", " ", "[">>
    /\ lines[Len(lines)] = <<"]">>
    /\ \A i \in 2..(Len(lines) - 1) : StartsWith(Trimmed(lines[i]), <<"\"">>)

TomlExample == << <<"d", "e", "p", "e", "n", "d", "e", "n", "c", "i", "e", "s", " ", "=", " ", "[", "\"", "r", "e", "q", "u", "e", "s", "t", "s", ">", "=", "2", ".", "0", "\"", ",", " ", "\"", "c", "l", "i", "c", "k", "\"", "]">> >>

\* C9: a PEP-621 dependencies array yields, in order, the leading name token
\* of every double-quoted entry, in the single-line and in the multi-line
\* form; the example yields [requests, click].
C9_Pep621EveryEntry ==
    /\ (Parsed /\ SingleLineArray(content)) =>
           parsed = TokensOf(QuotedEntries(content[1]))
    /\ (Parsed /\ MultiLineArray(content)) =>
           parsed = TokensOf(EntriesOfLines(SubSeq(content, 2, Len(content) - 1)))
    /\ (Parsed /\ content = TomlExample) =>
           parsed = << <<"r", "e", "q", "u", "e", "s", "t", "s">>, <<"c", "l", "i", "c", "k">> >>

(***************************************************************************)
(* The external tools, as far as the code observes them.  W is the world:  *)
(* [fs, sys, venv, conda, avail], the filesystem, the package sets of the  *)
(* interpreters and whether conda can be run.                              *)
(***************************************************************************)
PythonExecutables == <<"Scripts/python.exe", "Scripts/python", "bin/python", "bin/python3">>

\* What `python -m venv` leaves in a new environment directory.
NewVenvFiles(venv_path) == {venv_path \o <<"bin/activate">>, venv_path \o <<"bin/python">>}

\* The packages of a new isolated environment.
NewVenvPkgs == { <<"p", "i", "p">> }

\* The packages pip or conda reports for an interpreter.
Packages(W, exe) ==
    IF exe.kind = "sys" THEN W.sys
    ELSE IF exe.kind = "venv" /\ exe.path \in DOMAIN W.venv THEN W.venv[exe.path]
    ELSE IF exe.kind = "conda" /\ exe.name \in DOMAIN W.conda THEN W.conda[exe.name]
    ELSE {}

\* W with the packages of exe replaced.
WithPackages(W, exe, pkgs) ==
    IF exe.kind = "sys" THEN [W EXCEPT !.sys = pkgs]
    ELSE IF exe.kind = "venv"
    THEN [W EXCEPT !.venv = [p \in (DOMAIN W.venv) \cup {exe.path} |->
                                IF p = exe.path THEN pkgs ELSE W.venv[p]]]
    ELSE IF exe.kind = "conda"
    THEN [W EXCEPT !.conda = [n \in (DOMAIN W.conda) \cup {exe.name} |->
                                IF n = exe.name THEN pkgs ELSE W.conda[n]]]
    ELSE W

\* The output of `pip list --format=freeze`: one line name==version per package.
PipFreeze(pkgs) == {name \o <<"=", "=", "1", ".", "0">> : name \in pkgs}

\* The environment names conda can register, in the order conda lists them.
CondaNames == << <<"d", "e", "v">>, <<"d", "e", "v", "-", "m", "y", "e", "n", "v">>, <<"e", "n", "v">>, <<"m", "y", "e", "n", "v">> >>

\* The output of `conda env list` / `conda info --envs`: the heading, then one
\* line `name  path` per registered environment.
CondaEnvList(W) ==
    LET listed == SelectSeq(CondaNames, LAMBDA n : n \in DOMAIN W.conda)
    IN  << <<"#", " ", "c", "o", "n", "d", "a", " ", "e", "n", "v", "i", "r", "o", "n", "m", "e", "n", "t", "s", ":">>, <<"#">> >>
        \o [i \in DOMAIN listed |-> listed[i] \o <<" ", " ", "/", "o", "p", "t", "/", "c", "o", "n", "d", "a", "/", "e", "n", "v", "s", "/">> \o listed[i]]

\* The packages `conda env create -f` installs: every item of the manifest.
RECURSIVE CondaFilePkgs(_)
CondaFilePkgs(lines) ==
    IF lines = <<>> THEN {}
    ELSE LET line == Strip(Head(lines))
             item == NameMatch(Strip(From(line, 3)))
         IN  (IF StartsWith(line, <<"-", " ">>) /\ item # <<>> THEN {item} ELSE {})
             \cup CondaFilePkgs(Tail(lines))

(***************************************************************************)
(* DependencyManager: inventory and installation.                          *)
(***************************************************************************)
\* line.split('==')[0]
BeforeEq(line) ==
    LET at == {i \in 1..Len(line) : MatchesAt(line, i, <<"=", "=">>)}
    IN  IF at = {} THEN line
        ELSE SubSeq(line, 1, (CHOOSE i \in at : \A k \in at : i <= k) - 1)

\* get_installed_packages without the lower(): names are kept as pip prints them.
get_installed_packages_AsListed(ok, stdout) ==
    IF ok THEN {BeforeEq(line) : line \in {l \in stdout : Contains(l, <<"=", "=">>)}}
    ELSE {}

\* get_installed_packages: `ok` is whether pip list ran and exited with 0,
\* stdout the lines it printed.
get_installed_packages(ok, stdout) ==
    IF ok THEN {ToLower(BeforeEq(line)) : line \in {l \in stdout : Contains(l, <<"=", "=">>)}}
    ELSE {}

\* The packages an install command leaves behind: all of them when it exits
\* with 0, the first of them when it fails half way, none when it fails at once.
AfterInstall(pkgs, missing_packages, outcome) ==
    IF outcome = "ok" THEN pkgs \cup Range(missing_packages)
    ELSE IF outcome = "partial" THEN pkgs \cup {Head(missing_packages)}
    ELSE pkgs

InstallOutcomes == {"ok", "partial", "fail"}

\* install_missing_dependencies: [ok, W, calls]
install_missing_dependencies(W, python_exe, missing_packages, outcome) ==
    IF missing_packages = <<>> THEN [ok |-> TRUE, W |-> W, calls |-> <<>>]
    ELSE [ok |-> outcome = "ok",
          W |-> WithPackages(W, python_exe,
                    AfterInstall(Packages(W, python_exe), missing_packages, outcome)),
          calls |-> <<"pip_install">>]

\* One `conda install -n name`: it fails when conda cannot be run or the
\* environment is not registered.
CondaInstall(W, conda_env_name, missing_packages, outcome) ==
    IF W.avail /\ conda_env_name \in DOMAIN W.conda
    THEN [ok |-> outcome = "ok",
          W |-> WithPackages(W, CondaExe(conda_env_name),
                    AfterInstall(W.conda[conda_env_name], missing_packages, outcome))]
    ELSE [ok |-> FALSE, W |-> W]

\* install_conda_dependencies that gives up after the first install.
install_conda_dependencies_NoRetry(W, conda_env_name, missing_packages, outcome, forge) ==
    IF missing_packages = <<>> THEN [ok |-> TRUE, W |-> W, calls |-> <<>>]
    ELSE [ok |-> CondaInstall(W, conda_env_name, missing_packages, outcome).ok,
          W |-> CondaInstall(W, conda_env_name, missing_packages, outcome).W,
          calls |-> <<"conda_install">>]

\* install_conda_dependencies: [ok, W, calls]; a failed install is tried once
\* more with the conda-forge channel.
install_conda_dependencies(W, conda_env_name, missing_packages, outcome, forge) ==
    IF missing_packages = <<>> THEN [ok |-> TRUE, W |-> W, calls |-> <<>>]
    ELSE IF ~W.avail THEN [ok |-> FALSE, W |-> W, calls |-> <<"conda_install">>]
    ELSE LET first == CondaInstall(W, conda_env_name, missing_packages, outcome)
             second == CondaInstall(first.W, conda_env_name, missing_packages, forge)
         IN  IF first.ok THEN [ok |-> TRUE, W |-> first.W, calls |-> <<"conda_install">>]
             ELSE [ok |-> second.ok, W |-> second.W,
                   calls |-> <<"conda_install", "conda_install_forge">>]

(***************************************************************************)
(* VenvDetector: the interpreter of an environment.                        *)
(***************************************************************************)
\* get_venv_python_from_path: the first of the four interpreter paths that exists.
get_venv_python_from_path(F, venv_path) ==
    IF \E i \in DOMAIN PythonExecutables : Exists(F, venv_path \o <<PythonExecutables[i]>>)
    THEN VenvExe(venv_path)
    ELSE NoExe

get_venv_python_executable(F, info) ==
    IF info.type # "venv" THEN NoExe
    ELSE get_venv_python_from_path(F, info.path)

\* str.split(): the whitespace-separated fields of a line.
RECURSIVE Split(_)
Split(s) ==
    LET t == LStrip(s, Whitespace)
        e == SkipUntil(t, 1, Whitespace)
    IN  IF t = <<>> THEN <<>>
        ELSE <<SubSeq(t, 1, e - 1)>> \o Split(From(t, e))

\* parts[-1]
Last(s) == s[Len(s)]

\* The registered environment whose directory is env_path, if its interpreter exists.
CondaExeAt(W, env_path) ==
    IF \E n \in DOMAIN W.conda : env_path = <<"/", "o", "p", "t", "/", "c", "o", "n", "d", "a", "/", "e", "n", "v", "s", "/">> \o n
    THEN CondaExe(CHOOSE n \in DOMAIN W.conda : env_path = <<"/", "o", "p", "t", "/", "c", "o", "n", "d", "a", "/", "e", "n", "v", "s", "/">> \o n)
    ELSE NoExe

ListOutcomes == {"ok", "nonzero", "timeout"}

\* The lines of `conda info --envs` the loop of get_conda_python_executable
\* stops at: they contain the name, are no comment and have two fields.
NamedLines(stdout, conda_env_name) ==
    {i \in DOMAIN stdout :
        /\ Contains(stdout[i], conda_env_name)
        /\ ~StartsWith(stdout[i], <<"#">>)
        /\ Len(Split(Strip(stdout[i]))) >= 2}

\* The interpreter below the path the first of these lines ends with.
ListedPython(W, stdout, hits) ==
    IF hits = {} THEN NoExe
    ELSE CondaExeAt(W, Last(Split(Strip(stdout[CHOOSE i \in hits : \A k \in hits : i <= k]))))

\* get_conda_python_executable once `conda info --envs` has been read: the
\* listed interpreter, or else the one `conda run` reports.
CondaPython(W, conda_env_name, list, run, listed) ==
    IF ~W.avail \/ list = "timeout" THEN [exe |-> NoExe, calls |-> <<"conda_info">>]
    ELSE IF list = "ok" /\ listed # NoExe THEN [exe |-> listed, calls |-> <<"conda_info">>]
    ELSE [exe |-> IF run /\ conda_env_name \in DOMAIN W.conda
                  THEN CondaExe(conda_env_name) ELSE NoExe,
          calls |-> <<"conda_info", "conda_run">>]

\* get_conda_python_executable: [exe, calls].  `list` is how `conda info --envs`
\* ends, `run` whether `conda run` can be started.
get_conda_python_executable(W, info, list, run) ==
    IF info.type # "conda" \/ info.conda_env_name = <<>> THEN [exe |-> NoExe, calls |-> <<>>]
    ELSE CondaPython(W, info.conda_env_name, list, run,
             ListedPython(W, CondaEnvList(W),
                 NamedLines(CondaEnvList(W), info.conda_env_name)))

(***************************************************************************)
(* EnvironmentSetup.                                                       *)
(***************************************************************************)
VenvOutcomes == {"ok", "nonzero", "upgrade_nonzero", "upgrade_timeout"}

\* W after `python -m venv venv_path`.
WithNewVenv(W, venv_path) ==
    WithPackages([W EXCEPT !.fs = W.fs \cup NewVenvFiles(venv_path)],
                 VenvExe(venv_path), NewVenvPkgs)

\* create_virtual_environment: [path, W, calls]; path is <<>> for None.
create_virtual_environment(W, outcome) ==
    IF Exists(W.fs, <<0, ".venv">>) THEN [path |-> <<0, ".venv">>, W |-> W, calls |-> <<>>]
    ELSE IF outcome = "nonzero" THEN [path |-> <<>>, W |-> W, calls |-> <<"venv_create">>]
    ELSE IF get_venv_python_from_path(W.fs \cup NewVenvFiles(<<0, ".venv">>), <<0, ".venv">>) = NoExe
    THEN [path |-> <<0, ".venv">>, W |-> WithNewVenv(W, <<0, ".venv">>),
          calls |-> <<"venv_create">>]
    ELSE [path |-> IF outcome = "upgrade_timeout" THEN <<>> ELSE <<0, ".venv">>,
          W |-> WithNewVenv(W, <<0, ".venv">>), calls |-> <<"venv_create", "pip_upgrade">>]

\* The check of create_conda_environment for an environment that is there
\* already: some line of `conda env list` starts with the name.
AlreadyListed(stdout, env_name) ==
    /\ \E i \in DOMAIN stdout : Contains(stdout[i], env_name)
    /\ \E i \in DOMAIN stdout : StartsWith(Strip(stdout[i]), env_name)

\* create_conda_environment once the name has been parsed.
CreateNamed(W, lines, env_name, list, create) ==
    IF ~W.avail \/ env_name = <<>> THEN [ok |-> FALSE, W |-> W, calls |-> <<"conda_version">>]
    ELSE IF list = "timeout"
    THEN [ok |-> FALSE, W |-> W, calls |-> <<"conda_version", "conda_env_list">>]
    ELSE IF list = "ok" /\ AlreadyListed(CondaEnvList(W), env_name)
    THEN [ok |-> TRUE, W |-> W, calls |-> <<"conda_version", "conda_env_list">>]
    ELSE IF create /\ env_name \notin DOMAIN W.conda
    THEN [ok |-> TRUE, W |-> WithPackages(W, CondaExe(env_name), CondaFilePkgs(lines)),
          calls |-> <<"conda_version", "conda_env_list", "conda_env_create">>]
    ELSE [ok |-> FALSE, W |-> W,
          calls |-> <<"conda_version", "conda_env_list", "conda_env_create">>]

\* create_conda_environment: [ok, W, calls].  `list` is how `conda env list`
\* ends, `create` whether `conda env create` can succeed.
create_conda_environment(W, lines, list, create) ==
    CreateNamed(W, lines, parse_conda_env_name(lines), list, create)

\* The check of _check_environment_exists: a line that contains the name, is
\* no comment and starts with the name.
Registered(stdout, conda_env_name) ==
    \E i \in DOMAIN stdout :
        /\ Contains(stdout[i], conda_env_name)
        /\ ~StartsWith(stdout[i], <<"#">>)
        /\ StartsWith(Strip(stdout[i]), conda_env_name)

\* _check_environment_exists: [has_venv, calls]
check_environment_exists(W, info, list) ==
    IF info.type = "venv"
    THEN [has_venv |-> info.path # <<>> /\ Exists(W.fs, info.path), calls |-> <<>>]
    ELSE IF info.type = "conda" /\ info.conda_env_name # <<>>
    THEN IF ~W.avail THEN [has_venv |-> FALSE, calls |-> <<"conda_version">>]
         ELSE [has_venv |-> list = "ok" /\ Registered(CondaEnvList(W), info.conda_env_name),
               calls |-> <<"conda_version", "conda_env_list">>]
    ELSE [has_venv |-> FALSE, calls |-> <<>>]

\* What a creation leaves: [ok, status, W, calls].
CondaMade(r) ==
    [ok |-> r.ok, status |-> "conda_create_failed", W |-> r.W, calls |-> r.calls]

VenvMade(r) ==
    [ok |-> r.path # <<>>, status |-> "venv_create_failed", W |-> r.W, calls |-> r.calls]

\* The environment a run creates, "conda", "venv" or "none".
MakeEnvironment(W, lines, creates, venv, list, create) ==
    IF creates = "conda" THEN CondaMade(create_conda_environment(W, lines, list, create))
    ELSE IF creates = "venv" THEN VenvMade(create_virtual_environment(W, venv))
    ELSE [ok |-> TRUE, status |-> "", W |-> W, calls |-> <<>>]

(***************************************************************************)
(* PythonAliasManager.check_dependencies, in the three parts it runs:      *)
(* the environment, the interpreter, the packages.  Each part returns what *)
(* it reports, the world it leaves and the external commands it ran.       *)
(***************************************************************************)
\* `if not required_packages`
NothingRequired_Never(required_packages) == FALSE

NothingRequired(required_packages) == required_packages = <<>>

\* The packages of the manifest of the script's directory; [] without one.
Required(F, lines) ==
    IF find_requirements_file(F) = <<>> THEN <<>>
    ELSE parse_requirements_file(find_requirements_file(F), lines)

IsCondaFile(requirements_file) == requirements_file[2] \in Range(CondaEnvFiles)

\* The environment check_dependencies creates before it goes on: "conda",
\* "venv" or "none".
EnvironmentToCreate(info, requirements_file, required_packages, install) ==
    IF requirements_file = <<>> \/ info.type \in {"venv", "conda"} THEN "none"
    ELSE IF NothingRequired(required_packages) \/ ~install THEN "none"
    ELSE IF IsCondaFile(requirements_file) THEN "conda"
    ELSE "venv"

\* The run ends in the environment part.
Stop(status, W, info, calls) ==
    [done |-> TRUE, ok |-> FALSE, status |-> status, W |-> W, info |-> info,
     required |-> <<>>, calls |-> calls]

\* The run has its environment: it ends when nothing is required.
Go(W, info, required_packages, calls) ==
    [done |-> NothingRequired(required_packages), ok |-> TRUE,
     status |-> IF NothingRequired(required_packages) THEN "no_dependencies" ELSE "",
     W |-> W, info |-> info, required |-> required_packages, calls |-> calls]

\* The environment part, given what detection and parsing found and what the
\* creation `made`: [done, ok, status, W, info, required, calls].
check_environment(W, lines, info, requirements_file, required_packages, creates, made) ==
    IF requirements_file = <<>> THEN Stop("no_requirements_file", W, info, <<>>)
    ELSE IF info.type \in {"venv", "conda"} THEN Go(W, info, required_packages, <<>>)
    ELSE IF creates # "none"
    THEN IF made.ok
         THEN Go(made.W, detect_venv(made.W.fs, lines), required_packages, made.calls)
         ELSE Stop(made.status, made.W, info, made.calls)
    ELSE IF ~NothingRequired(required_packages) THEN Stop("no_environment", W, info, <<>>)
    ELSE IF info = NoInfo THEN Stop("nothing_detected", W, info, <<>>)
    ELSE Go(W, info, required_packages, <<>>)

\* sys.executable when the environment has no interpreter.
OrSystem(exe) == IF exe # NoExe THEN exe ELSE SysExe

CondaOrSystem(r) == [exe |-> OrSystem(r.exe), calls |-> r.calls]

\* The interpreter part: [exe, calls].
choose_python(W, info, list, run) ==
    IF info.type = "venv"
    THEN [exe |-> OrSystem(get_venv_python_executable(W.fs, info)), calls |-> <<>>]
    ELSE IF info.type = "conda"
    THEN CondaOrSystem(get_conda_python_executable(W, info, list, run))
    ELSE [exe |-> SysExe, calls |-> <<>>]

\* The required packages whose lowercased name is not installed, in order.
Missing(required_packages, installed_packages) ==
    SelectSeq(required_packages, LAMBDA p : ToLower(p) \notin installed_packages)

\* The required packages whose lowercased name is installed, in order.
InstalledRequired(required_packages, installed_packages) ==
    SelectSeq(required_packages, LAMBDA p : ToLower(p) \in installed_packages)

\* What the packages part reports.
Checked(ok, status, W, pip_list, installed_packages, missing, satisfied, calls) ==
    [ok |-> ok, status |-> status, W |-> W,
     inventory |-> IF pip_list THEN "ok" ELSE "failed",
     installed |-> installed_packages, missing |-> missing, satisfied |-> satisfied,
     calls |-> <<"pip_list">> \o calls]

\* The installation of the missing packages: [ok, W, calls], by conda for a
\* managed environment and by pip otherwise.
Remedy(W, info, python_exe, missing_packages, outcome, forge) ==
    IF info.type # "conda"
    THEN install_missing_dependencies(W, python_exe, missing_packages, outcome)
    ELSE IF info.conda_env_name = <<>> THEN [ok |-> FALSE, W |-> W, calls |-> <<>>]
    ELSE install_conda_dependencies(W, info.conda_env_name, missing_packages, outcome, forge)

\* The packages part after the inventory.
Reconcile(W, info, required_packages, install, pip_list, installed_packages, missing_packages, satisfied, remedy) ==
    IF installed_packages = {}
    THEN Checked(FALSE, "inventory_error", W, pip_list, {}, <<>>, <<>>, <<>>)
    ELSE IF missing_packages = <<>>
    THEN Checked(TRUE, "all_installed", W, pip_list, installed_packages,
                 missing_packages, satisfied, <<>>)
    ELSE IF ~install
    THEN Checked(FALSE, "missing", W, pip_list, installed_packages,
                 missing_packages, satisfied, <<>>)
    ELSE IF info.type = "conda" /\ info.conda_env_name = <<>>
    THEN Checked(FALSE, "no_conda_name", W, pip_list, installed_packages,
                 missing_packages, satisfied, <<>>)
    ELSE Checked(remedy.ok, IF remedy.ok THEN "installed" ELSE "install_failed",
                 remedy.W, pip_list, installed_packages, missing_packages, satisfied,
                 remedy.calls)

\* The packages part for the installed set the inventory returned.
CheckAgainst(W, info, required_packages, python_exe, install, pip_list, outcome, forge, installed_packages) ==
    Reconcile(W, info, required_packages, install, pip_list, installed_packages,
        Missing(required_packages, installed_packages),
        InstalledRequired(required_packages, installed_packages),
        Remedy(W, info, python_exe, Missing(required_packages, installed_packages),
               outcome, forge))

\* The packages part: [ok, status, W, inventory, installed, missing, satisfied, calls].
check_packages(W, info, required_packages, python_exe, install, pip_list, outcome, forge) ==
    CheckAgainst(W, info, required_packages, python_exe, install, pip_list, outcome, forge,
        get_installed_packages(pip_list, PipFreeze(Packages(W, python_exe))))

(***************************************************************************)
(* EnvironmentSetup.auto_setup_dependencies:                               *)
(* [ok, status, W, info, required, calls].  `found` is how the `conda env  *)
(* list` of _check_environment_exists ends; venv, list and create are the  *)
(* outcomes of the creation.                                               *)
(***************************************************************************)
SetupResult(ok, status, W, info, required_packages, calls) ==
    [ok |-> ok, status |-> status, W |-> W, info |-> info,
     required |-> required_packages, calls |-> calls]

\* The end of auto_setup_dependencies after a creation.
SetupMade(lines, info, required_packages, calls, made) ==
    IF made.ok
    THEN SetupResult(TRUE, "ready", made.W, detect_venv(made.W.fs, lines),
                     required_packages, calls \o made.calls)
    ELSE SetupResult(FALSE, made.status, made.W, info, required_packages,
                     calls \o made.calls)

\* auto_setup_dependencies once the environment has been looked for.
SetupEnvironment(W, lines, install, info, requirements_file, required_packages, calls, exists, venv, list, create) ==
    IF exists.has_venv
    THEN SetupResult(TRUE, "ready", W, info, required_packages, calls \o exists.calls)
    ELSE IF ~install
    THEN SetupResult(FALSE, "no_environment", W, info, required_packages,
                     calls \o exists.calls)
    ELSE SetupMade(lines, info, required_packages, calls \o exists.calls,
             MakeEnvironment(W, lines,
                 IF IsCondaFile(requirements_file) THEN "conda" ELSE "venv",
                 venv, list, create))

\* auto_setup_dependencies, given what detection and parsing found.
SetupProject(W, lines, install, info, requirements_file, required_packages, found, venv, list, create) ==
    IF requirements_file = <<>>
    THEN SetupResult(FALSE, "no_requirements_file", W, info, <<>>, <<>>)
    ELSE IF IsCondaFile(requirements_file) /\ ~W.avail
    THEN SetupResult(FALSE, "no_conda", W, info, <<>>, <<"conda_version">>)
    ELSE IF NothingRequired(required_packages)
    THEN SetupResult(TRUE, "no_dependencies", W, info, required_packages,
                     IF IsCondaFile(requirements_file) THEN <<"conda_version">> ELSE <<>>)
    ELSE SetupEnvironment(W, lines, install, info, requirements_file, required_packages,
             IF IsCondaFile(requirements_file) THEN <<"conda_version">> ELSE <<>>,
             check_environment_exists(W, info, found), venv, list, create)

auto_setup_dependencies(W, lines, install, found, venv, list, create) ==
    SetupProject(W, lines, install, detect_venv(W.fs, lines), find_requirements_file(W.fs),
                 Required(W.fs, lines), found, venv, list, create)

(***************************************************************************)
(* The explored projects: a script directory one level below the root of   *)
(* its tree, with at most MaxDepsFiles of the paths below, one manifest    *)
(* text, and interpreters holding at most MaxPkgs packages each.           *)
(***************************************************************************)
MaxDepsFiles == 3

MaxPkgs == 1

DepsPaths ==
    {<<0, ".venv", "bin/activate">>, <<0, ".venv", "bin/python">>,
     <<1, "venv", "bin/activate">>,
     <<0, "environment.yml">>, <<0, "requirements.txt">>, <<0, "setup.py">>}

PkgNames == { <<"F", "l", "a", "s", "k">>, <<"n", "u", "m", "p", "y">> }

PkgSets == UpTo(PkgNames, MaxPkgs)

\* What the system interpreter and a registered managed environment can hold.
SysPkgSets == UpTo({<<"p", "i", "p">>}, MaxPkgs)

CondaPkgSets == UpTo({<<"p", "i", "p">>, <<"n", "u", "m", "p", "y">>}, MaxPkgs)

\* Manifest texts: without packages, with packages, and (managed) without a name.
DepsReqTexts ==
    { << <<"#", " ", "n", "o", "t", "h", "i", "n", "g">> >>, << <<"n", "u", "m", "p", "y">> >>, << <<"f", "l", "a", "s", "k", "=", "=", "2", ".", "0", ".", "1">>, <<"n", "u", "m", "p", "y", ">", "=", "1", ".", "2", "0">> >> }

DepsCondaTexts ==
    { << <<"n", "a", "m", "e", ":", " ", "m", "y", "e", "n", "v">>, <<"d", "e", "p", "e", "n", "d", "e", "n", "c", "i", "e", "s", ":">> >>,
      << <<"n", "a", "m", "e", ":", " ", "m", "y", "e", "n", "v">>, <<"d", "e", "p", "e", "n", "d", "e", "n", "c", "i", "e", "s", ":">>, <<" ", " ", "-", " ", "n", "u", "m", "p", "y">> >>,
      << <<"d", "e", "p", "e", "n", "d", "e", "n", "c", "i", "e", "s", ":">>, <<" ", " ", "-", " ", "n", "u", "m", "p", "y">> >> }

\* The environments conda has registered before the first run.
RegisteredNames == { <<"d", "e", "v", "-", "m", "y", "e", "n", "v">>, <<"m", "y", "e", "n", "v">> }

\* The environment directories of F that hold an interpreter.
VenvsWithPython(F) ==
    {<<p[1], p[2]>> : p \in {q \in F : Len(q) = 3 /\ q[3] \in Range(PythonExecutables)}}

CurrentWorld ==
    [fs |-> fs, sys |-> sysPkgs, venv |-> venvPkgs, conda |-> condaPkgs,
     avail |-> condaAvailable]

InitDeps ==
    /\ depth = 2
    /\ readable = TRUE
    /\ fs \in UpTo(DepsPaths, MaxDepsFiles)
    /\ content \in
          IF FirstExisting(fs, 0, CondaEnvFiles) # <<>> THEN DepsCondaTexts
          ELSE IF <<0, "requirements.txt">> \in fs THEN DepsReqTexts
          ELSE {<<>>}
    /\ venv_info = NoInfo
    /\ parsed = <<>>
    /\ sysPkgs \in SysPkgSets
    /\ venvPkgs \in [VenvsWithPython(fs) -> PkgSets]
    /\ condaAvailable \in IF FirstExisting(fs, 0, CondaEnvFiles) # <<>> THEN BOOLEAN ELSE {FALSE}
    /\ condaPkgs \in
          IF condaAvailable
          THEN UNION {[names -> CondaPkgSets] : names \in SUBSET RegisteredNames}
          ELSE {<<>>}
    /\ report = NoReport
    /\ NoAliasStore
    /\ pc = "start"

\* The state a run leaves: the world W, the descriptor, and the report of the run.
Finish(W, info, rep, next) ==
    /\ fs' = W.fs
    /\ sysPkgs' = W.sys
    /\ venvPkgs' = W.venv
    /\ condaPkgs' = W.conda
    /\ venv_info' = info
    /\ parsed' = rep.required
    /\ report' = rep
    /\ pc' = next
    /\ UNCHANGED <<depth, content, readable, condaAvailable, store>>

\* Whether a run with this descriptor asks conda for the interpreter.
AsksConda(W, info) == info.type = "conda" /\ info.conda_env_name # <<>> /\ W.avail

\* The report of a run that ended in the environment part.
EnvReport(env, install, o) ==
    [W |-> env.W, info |-> env.info,
     report |-> [op |-> "check", install |-> install, ok |-> env.ok,
                 status |-> env.status, required |-> env.required,
                 inventory |-> "none", installed |-> {}, missing |-> <<>>,
                 satisfied |-> <<>>, exe |-> NoExe, calls |-> env.calls,
                 clean |-> o.clean, listed |-> {}]]

\* The report of a run that reached the packages part.
PackagesReport(env, install, o, py, pk) ==
    [W |-> pk.W, info |-> env.info,
     report |-> [op |-> "check", install |-> install, ok |-> pk.ok,
                 status |-> pk.status, required |-> env.required,
                 inventory |-> pk.inventory, installed |-> pk.installed,
                 missing |-> pk.missing, satisfied |-> pk.satisfied,
                 exe |-> py.exe, calls |-> env.calls \o py.calls \o pk.calls,
                 clean |-> /\ o.clean /\ o.list = "ok" /\ o.run /\ o.pip_list
                           /\ o.outcome = "ok" /\ o.forge = "ok",
                 listed |-> IF o.pip_list THEN Packages(env.W, py.exe) ELSE {}]]

\* The interpreter and packages parts with the interpreter py.
CheckWith(env, install, o, py) ==
    PackagesReport(env, install, o, py,
        check_packages(env.W, env.info, env.required, py.exe, install,
                       o.pip_list, o.outcome, o.forge))

\* One run of check_dependencies under the outcomes o of the external commands
\* it runs after the environment part env: [W, info, report].
check_dependencies(env, install, o) ==
    IF env.done THEN EnvReport(env, install, o)
    ELSE CheckWith(env, install, o, choose_python(env.W, env.info, o.list, o.run))

\* The outcomes of the external commands a run consults after env.
LaterOutcomes(env, install, clean) ==
    IF env.done
    THEN {[list |-> "ok", run |-> TRUE, pip_list |-> TRUE, outcome |-> "ok",
           forge |-> "ok", clean |-> clean]}
    ELSE {[list |-> list, run |-> run, pip_list |-> pip_list, outcome |-> outcome,
           forge |-> forge, clean |-> clean] :
             list \in (IF AsksConda(env.W, env.info) THEN ListOutcomes ELSE {"ok"}),
             run \in (IF AsksConda(env.W, env.info) THEN BOOLEAN ELSE {TRUE}),
             pip_list \in BOOLEAN,
             outcome \in (IF install THEN InstallOutcomes ELSE {"ok"}),
             forge \in (IF install /\ AsksConda(env.W, env.info)
                        THEN InstallOutcomes ELSE {"ok"})}

\* The runs that go on from the environment part env.
RunsAfter(env, install, clean) ==
    {check_dependencies(env, install, o) : o \in LaterOutcomes(env, install, clean)}

\* The runs of a project, given what detection and parsing found and the
\* environment the run creates.
RunsCreating(W, lines, install, info, requirements_file, required_packages, creates) ==
    UNION { RunsAfter(
                check_environment(W, lines, info, requirements_file, required_packages,
                    creates, MakeEnvironment(W, lines, creates, venv, list, create)),
                install, venv = "ok" /\ list = "ok" /\ create) :
              venv \in (IF creates = "venv" THEN VenvOutcomes ELSE {"ok"}),
              list \in (IF creates = "conda" /\ W.avail THEN ListOutcomes ELSE {"ok"}),
              create \in (IF creates = "conda" /\ W.avail THEN BOOLEAN ELSE {TRUE}) }

RunsOf(W, lines, install, info, requirements_file, required_packages) ==
    RunsCreating(W, lines, install, info, requirements_file, required_packages,
        EnvironmentToCreate(info, requirements_file, required_packages, install))

\* Every way a run of check_dependencies can end in the world W.
CheckRuns(W, lines, install) ==
    RunsOf(W, lines, install, detect_venv(W.fs, lines), find_requirements_file(W.fs),
           Required(W.fs, lines))

\* `deps <alias>` and `deps <alias> --install`; after a run that reported a
\* successful install the command can be run once more.
CheckDependencies(install) ==
    /\ pc \in {"start", "installed"}
    /\ \E r \in CheckRuns(CurrentWorld, Opened, install) :
          Finish(r.W, r.info,
                 [r.report EXCEPT !.clean = @ /\ (pc = "installed" => report.clean)],
                 IF pc = "installed" THEN "rechecked"
                 ELSE IF r.report.status = "installed" THEN "installed"
                 ELSE "done")

\* The report of a run of auto_setup_dependencies.
SetupReport(r, install, clean) ==
    [W |-> r.W, info |-> r.info,
     report |-> [op |-> "setup", install |-> install, ok |-> r.ok, status |-> r.status,
                 required |-> r.required, inventory |-> "none", installed |-> {},
                 missing |-> <<>>, satisfied |-> <<>>, exe |-> NoExe,
                 calls |-> r.calls, clean |-> clean, listed |-> {}]]

\* The runs of auto_setup_dependencies; asks is whether the run asks conda
\* for the environment, makes whether it can come to create one.
SetupRunsOf(W, lines, install, asks, makes) ==
    { SetupReport(auto_setup_dependencies(W, lines, install, found, venv, list, create),
                  install, found = "ok" /\ venv = "ok" /\ list = "ok" /\ create) :
        found \in (IF asks THEN ListOutcomes ELSE {"ok"}),
        venv \in (IF makes /\ ~asks THEN VenvOutcomes ELSE {"ok"}),
        list \in (IF makes /\ asks THEN ListOutcomes ELSE {"ok"}),
        create \in (IF makes /\ asks THEN BOOLEAN ELSE {TRUE}) }

\* Every way a run of auto_setup_dependencies can end in the world W.
SetupRuns(W, lines, install) ==
    SetupRunsOf(W, lines, install, AsksConda(W, detect_venv(W.fs, lines)),
                install /\ find_requirements_file(W.fs) # <<>>)

\* `setup-deps <alias>`: PythonAliasManager.auto_setup_dependencies.
AutoSetupDependencies(install) ==
    /\ pc = "start"
    /\ \E r \in SetupRuns(CurrentWorld, Opened, install) :
          Finish(r.W, r.info, r.report, "done")

NextDeps == \E install \in BOOLEAN : CheckDependencies(install) \/ AutoSetupDependencies(install)

SpecDeps == InitDeps /\ [][NextDeps]_vars

(***************************************************************************)
(* Properties of check_dependencies and auto_setup_dependencies, stated on *)
(* the report of a run and on the interpreters' packages.                  *)
(***************************************************************************)
CheckRan == report.op = "check"

\* The run listed the packages of its interpreter.
Listed == CheckRan /\ report.inventory = "ok"

\* The external commands that query the inventory, create an environment or install.
InventoryCalls == {"pip_list"}

CreationCalls == {"venv_create", "pip_upgrade", "conda_env_create"}

InstallCalls == {"pip_install", "conda_install", "conda_install_forge"}

\* The manifest of the script's directory is there and yields no package.
EmptyManifest == find_requirements_file(fs) # <<>> /\ Required(fs, content) = <<>>

\* The members of s that are in S, in the order of s.
Sub(s, S) == SelectSeq(s, LAMBDA p : p \in S)

\* The required packages no listed package matches when both are lowercased.
Lacking ==
    {p \in Range(report.required) :
        ~\E q \in report.listed : ToLower(q) = ToLower(p)}

\* C5: when the listing of the chosen interpreter fails the check aborts with an
\* error, but when the listing succeeds and reports zero installed packages the
\* check goes on and reports every required package as missing.
C5_EmptyInventoryProceeds ==
    /\ (CheckRan /\ report.inventory = "failed") => report.status = "inventory_error"
    /\ (Listed /\ report.listed = {}) =>
          /\ report.status # "inventory_error"
          /\ report.missing = report.required

\* C6: a required package is missing if and only if no listed package has its
\* lowercased name; missing and satisfied partition the required list and keep
\* its order; the installed set holds only lowercased names.
C6_ReconcileByLowercase ==
    (Listed /\ report.listed # {}) =>
        /\ report.missing = Sub(report.required, Lacking)
        /\ report.satisfied = Sub(report.required, Range(report.required) \ Lacking)
        /\ \A p \in Range(report.required) :
              p \in Range(report.missing) <=> ToLower(p) \notin report.installed
        /\ \A n \in report.installed : n = ToLower(n)

\* A package listed as Flask satisfies the requirement flask; numpy is missing.
C6_Witness ==
    /\ Listed
    /\ report.listed = {<<"F", "l", "a", "s", "k">>}
    /\ report.required = << <<"f", "l", "a", "s", "k">>, <<"n", "u", "m", "p", "y">> >>
    /\ report.satisfied = << <<"f", "l", "a", "s", "k">> >>
    /\ report.missing = << <<"n", "u", "m", "p", "y">> >>

\* C7 as stated: whenever the manifest yields an empty required list, both
\* operations report success and run no inventory, creation or install.
C7_EmptyRequiredSucceeds ==
    (report.op # "none" /\ EmptyManifest) =>
        /\ report.ok
        /\ Range(report.calls) \cap (InventoryCalls \cup CreationCalls \cup InstallCalls) = {}

\* C7, amended: with an empty required list neither operation runs an inventory,
\* a creation or an install; check_dependencies reports success, and
\* auto_setup_dependencies reports success unless the manifest is a
\* managed-environment file and conda cannot be run, when it reports failure.
C7_EmptyRequiredNoCommands ==
    (report.op # "none" /\ EmptyManifest) =>
        /\ Range(report.calls) \cap (InventoryCalls \cup CreationCalls \cup InstallCalls) = {}
        /\ report.ok <=> ~(/\ report.op = "setup"
                           /\ IsCondaFile(find_requirements_file(fs))
                           /\ ~condaAvailable)

\* check_dependencies --install on a project with an isolated environment and
\* a manifest without packages: success, no command run.
C7_Witness ==
    /\ CheckRan /\ report.install
    /\ EmptyManifest
    /\ venv_info.type = "venv"
    /\ report.ok /\ report.status = "no_dependencies" /\ report.calls = <<>>

\* The environment an installing run of check_dependencies installs into.
InstallTarget ==
    IF venv_info.type = "conda" THEN CondaExe(venv_info.conda_env_name) ELSE report.exe

\* C8: after check_dependencies --install reported a successful install for an
\* isolated or a managed environment, the environment it queried is the one it
\* installed into, and a second run whose commands all succeed finds nothing
\* missing.
C8_InstallRoundTrip ==
    /\ (pc = "installed" /\ venv_info.type \in {"venv", "conda"}) =>
          report.exe = InstallTarget
    /\ (pc = "rechecked" /\ report.clean /\ venv_info.type \in {"venv", "conda"}) =>
          /\ report.inventory = "ok"
          /\ report.missing = <<>>
          /\ report.status = "all_installed"

(***************************************************************************)
(* Further properties of detect_venv.                                      *)
(***************************************************************************)
\* The script's directory holds a plain manifest.
HasRequirementsFile ==
    \E p \in fs : Len(p) = 2 /\ p[1] = 0 /\ p[2] \in Range(RequirementsFiles)

\* C13: with a managed-environment manifest in the script's directory the
\* returned type is never 'project': tier 2 sets it, tier 3 leaves what tier 2
\* set (the result of tier 3 has the type 'conda'), and tier 3 still records
\* the first plain manifest of the script's directory as requirements_file.
C13_NeverDeclaredOnlyWithCondaFile ==
    (Detected /\ HasCondaFile) =>
        /\ venv_info.type # "project"
        /\ venv_info.type \in {"conda", "venv"}
        /\ CheckRequirementsFiles(fs,
               CheckCondaFiles(fs, ScanScriptDir(fs, NoInfo, 1), content)).type = "conda"
        /\ HasRequirementsFile =>
               venv_info.requirements_file = FirstExisting(fs, 0, RequirementsFiles)

\* C13 witness: both manifests in the script's directory, the kind from the
\* managed one and the plain one recorded.
C13_Witness ==
    /\ Detected /\ HasCondaFile /\ HasRequirementsFile
    /\ venv_info.type = "conda"
    /\ venv_info.requirements_file # <<>>
    /\ venv_info.conda_env_file # <<>>

\* C15: the tier-1 scan of the script's directory settles on the first valid
\* candidate in the order venv, env, .venv, .env, as the ancestor scan does for
\* its directory: the path tier 1 records, and the path returned when no
\* ancestor environment replaces it, is the first valid candidate's.
C15_FirstValidCandidateWins ==
    (Detected /\ FirstValidVenv(fs, 0) # 0) =>
        LET first == <<0, VenvNames[FirstValidVenv(fs, 0)]>>
        IN  /\ ScanScriptDir(fs, NoInfo, 1).path = first
            /\ venv_info.parent_level = 0 =>
                   /\ venv_info.path = first
                   /\ venv_info.activate_script = FirstActivate(fs, first)

\* C16: when the ancestor walk finds a valid environment in the directory
\* parent_level hops up and that same directory holds a plain manifest, the
\* returned requirements_file is the first plain manifest of that directory.
C16_AncestorManifestRecorded ==
    (Detected /\ venv_info.type = "venv" /\ venv_info.parent_level >= 1
        /\ FirstExisting(fs, venv_info.parent_level, RequirementsFiles) # <<>>) =>
        venv_info.requirements_file
            = FirstExisting(fs, venv_info.parent_level, RequirementsFiles)

\* The script's directory holds the plain manifest `name`.
HasManifest(name) == <<0, name>> \in fs

\* C17 as stated: the lock file is checked first, so when poetry.lock exists in
\* the script's directory the recorded requirements_file is the lock file.
C17_LockFileFirst ==
    (Detected /\ HasManifest("poetry.lock")) =>
        venv_info.requirements_file = <<0, "poetry.lock">>

\* C17 amended: tier 3 checks requirements.txt, pyproject.toml, setup.py and
\* poetry.lock in that order; the recorded requirements_file is the first of
\* them that exists, so the lock file is recorded only when it is alone.
C17_LockFileLast ==
    (Detected /\ HasRequirementsFile) =>
        venv_info.requirements_file =
            IF HasManifest("requirements.txt") THEN <<0, "requirements.txt">>
            ELSE IF HasManifest("pyproject.toml") THEN <<0, "pyproject.toml">>
            ELSE IF HasManifest("setup.py") THEN <<0, "setup.py">>
            ELSE <<0, "poetry.lock">>

\* C17 witness: the lock file beside another plain manifest, and the other one
\* recorded.
C17_Witness ==
    /\ Detected /\ HasManifest("poetry.lock")
    /\ \E n \in {"requirements.txt", "pyproject.toml", "setup.py"} :
           HasManifest(n) /\ venv_info.requirements_file = <<0, n>>

\* C18: in every returned descriptor activate_script is populated only if the
\* type is 'venv', and conda_env_name only if the type is 'conda'.
C18_FieldsMatchKind ==
    Detected =>
        /\ venv_info.activate_script # <<>> => venv_info.type = "venv"
        /\ venv_info.conda_env_name # <<>> => venv_info.type = "conda"

\* C19: with a managed-environment manifest in the script's own directory the
\* returned type is 'conda', whatever isolated environments the script's
\* directory or its ancestors hold.
C19_CondaFileGivesConda ==
    (Detected /\ HasCondaFile) => venv_info.type = "conda"

(***************************************************************************)
(* Further properties of auto_setup_dependencies and check_dependencies.   *)
(***************************************************************************)
SetupRan == report.op = "setup"

\* The position of the first occurrence of the call c in the sequence calls,
\* 0 when it does not occur.
FirstCall(calls, c) ==
    LET at == {i \in DOMAIN calls : calls[i] = c}
    IN  IF at = {} THEN 0 ELSE CHOOSE i \in at : \A k \in at : i <= k

\* C12: when auto_setup_dependencies(install_missing = True) reports success
\* for a plain manifest with a non-empty required list and it had to create the
\* virtual environment, an install of the required packages was invoked after
\* the creation and before the success was reported.
C12_SetupInstallsRequired ==
    (/\ SetupRan /\ report.install /\ report.ok
     /\ report.required # <<>>
     /\ ~IsCondaFile(find_requirements_file(fs))
     /\ "venv_create" \in Range(report.calls)) =>
        /\ "pip_install" \in Range(report.calls)
        /\ FirstCall(report.calls, "venv_create") < FirstCall(report.calls, "pip_install")

(***************************************************************************)
(* The explored managed projects: a script directory holding only a        *)
(* managed-environment manifest whose name is registered, is a prefix of a *)
(* registered name (dev), is inside one without being a prefix (env), or   *)
(* is missing; the system interpreter may hold the declared package.       *)
(***************************************************************************)
InitManaged ==
    /\ depth = 2
    /\ readable = TRUE
    /\ fs = {<<0, "environment.yml">>}
    /\ content \in
          { << <<"n", "a", "m", "e", ":", " ", "m", "y", "e", "n", "v">>, <<"d", "e", "p", "e", "n", "d", "e", "n", "c", "i", "e", "s", ":">>, <<" ", " ", "-", " ", "n", "u", "m", "p", "y">> >>,
            << <<"n", "a", "m", "e", ":", " ", "d", "e", "v">>, <<"d", "e", "p", "e", "n", "d", "e", "n", "c", "i", "e", "s", ":">>, <<" ", " ", "-", " ", "n", "u", "m", "p", "y">> >>,
            << <<"n", "a", "m", "e", ":", " ", "e", "n", "v">>, <<"d", "e", "p", "e", "n", "d", "e", "n", "c", "i", "e", "s", ":">>, <<" ", " ", "-", " ", "n", "u", "m", "p", "y">> >>,
            << <<"d", "e", "p", "e", "n", "d", "e", "n", "c", "i", "e", "s", ":">>, <<" ", " ", "-", " ", "n", "u", "m", "p", "y">> >> }
    /\ venv_info = NoInfo
    /\ parsed = <<>>
    /\ sysPkgs \in CondaPkgSets
    /\ venvPkgs = <<>>
    /\ condaAvailable \in BOOLEAN
    /\ condaPkgs \in
          IF condaAvailable
          THEN UNION {[names -> CondaPkgSets] : names \in SUBSET RegisteredNames}
          ELSE {<<>>}
    /\ report = NoReport
    /\ NoAliasStore
    /\ pc = "start"

SpecManaged == InitManaged /\ [][NextDeps]_vars

\* The run of auto_setup_dependencies took the managed environment for an
\* existing one: it succeeded past the parsing without creating anything.
TakenAsExisting ==
    /\ SetupRan /\ report.ok /\ report.status = "ready"
    /\ "conda_env_create" \notin Range(report.calls)

\* C11: a managed environment is taken as existing (creation skipped) only if
\* an environment with exactly the parsed name is registered; a parsed name
\* that is only a prefix or a substring of a registered name is not.
C11_ExactNameMatch ==
    (TakenAsExisting /\ venv_info.type = "conda") =>
        venv_info.conda_env_name \in DOMAIN condaPkgs

\* C20: for a managed-environment manifest without a parsable name the
\* descriptor has the type 'conda' and no conda_env_name, and both
\* auto_setup_dependencies and check_dependencies, asked to install, report
\* failure without running an environment creation or an install.
C20_UnnamedManagedFails ==
    (/\ report.op # "none" /\ report.install
     /\ HasCondaFile /\ parse_conda_env_name(content) = <<>>) =>
        /\ venv_info.type = "conda" /\ venv_info.conda_env_name = <<>>
        /\ ~report.ok
        /\ Range(report.calls) \cap (CreationCalls \cup InstallCalls) = {}

(***************************************************************************)
(* The alias store: ConfigManager, ScriptGenerator and the add_alias and   *)
(* remove_alias of PythonAliasManager.  An alias name is a string of       *)
(* characters that is usable as a file name of the launcher directory; a   *)
(* path is the sequence of its components, "/" first when it is absolute.  *)
(***************************************************************************)
\* ConfigManager.load_aliases: the stored map, {} when the file is missing or
\* does not hold JSON.
load_aliases(file) == IF file.kind = "json" THEN file.entries ELSE <<>>

\* save_aliases that leaves the file as it is.
save_aliases_Skipped(file, map) == file

\* ConfigManager.save_aliases: the file rewritten with the map.
save_aliases(file, map) == [kind |-> "json", entries |-> map]

\* The directory or map `m` with `v` at the key `k`, and without the key `k`.
Put(m, k, v) == [x \in DOMAIN m \cup {k} |-> IF x = k THEN v ELSE m[x]]

Unlink(m, k) == [x \in DOMAIN m \ {k} |-> m[x]]

\* The scripts that exist; /work is the working directory of the process.
ScriptFiles == { <<"/", "work", "tool.py">>, <<"/", "work", "job.py">> }

\* The components left once "." and ".." are resolved.
RECURSIVE NormParts(_, _)
NormParts(parts, acc) ==
    IF parts = <<>> THEN acc
    ELSE IF Head(parts) = "." THEN NormParts(Tail(parts), acc)
    ELSE IF Head(parts) = ".."
    THEN NormParts(Tail(parts), IF acc = <<>> THEN acc ELSE SubSeq(acc, 1, Len(acc) - 1))
    ELSE NormParts(Tail(parts), Append(acc, Head(parts)))

\* os.path.abspath
abspath(path) ==
    IF path # <<>> /\ Head(path) = "/" THEN <<"/">> \o NormParts(Tail(path), <<>>)
    ELSE <<"/">> \o NormParts(<<"work">> \o path, <<>>)

\* The file name of the batch launcher of an alias; the shell launcher has the
\* name of the alias.
BatchFile(alias_name) == alias_name \o <<".", "b", "a", "t">>

\* venv_info_override of add_alias; NoInfo is None.
Override(conda_env, avail) ==
    IF conda_env # <<>> /\ avail
    THEN [NoInfo EXCEPT !.type = "conda", !.conda_env_name = conda_env]
    ELSE NoInfo

\* ScriptGenerator.create_batch_file: the launcher directory with the batch
\* file written.  info is `venv_info_override or detect_venv(script_path)`;
\* runs is what the launcher runs the script with, the environment of the
\* descriptor when the launcher can use it, the system python otherwise.
create_batch_file(dir, info, avail, alias_name, script_path) ==
    Put(dir, BatchFile(alias_name),
        [script |-> script_path,
         runs |-> IF info.type = "venv"
                  THEN (IF info.path # <<>> THEN "venv" ELSE "system")
                  ELSE IF info.type = "conda"
                  THEN (IF info.conda_env_name # <<>> /\ avail THEN "conda" ELSE "system")
                  ELSE "system"])

\* ScriptGenerator.create_shell_script
create_shell_script(dir, F, info, avail, alias_name, script_path) ==
    Put(dir, alias_name,
        [script |-> script_path,
         runs |-> IF info.type = "venv"
                  THEN (IF get_venv_python_executable(F, info) # NoExe
                           /\ info.activate_script # <<>>
                        THEN "venv" ELSE "system")
                  ELSE IF info.type = "conda"
                  THEN (IF info.conda_env_name # <<>> /\ avail THEN "conda" ELSE "system")
                  ELSE "system"])

\* The launchers add_alias writes for the descriptor info.
Launchers(dir, F, info, avail, alias_name, script_path) ==
    create_shell_script(create_batch_file(dir, info, avail, alias_name, script_path),
                        F, info, avail, alias_name, script_path)

\* add_alias: [ok, aliases, config_file, batch_dir]
add_alias(map, file, dir, F, lines, avail, alias_name, script_path, conda_env) ==
    IF abspath(script_path) \notin ScriptFiles
    THEN [ok |-> FALSE, aliases |-> map, config_file |-> file, batch_dir |-> dir]
    ELSE [ok |-> TRUE,
          aliases |-> Put(map, alias_name, abspath(script_path)),
          config_file |-> save_aliases(file, Put(map, alias_name, abspath(script_path))),
          batch_dir |->
              Launchers(dir, F,
                        IF Override(conda_env, avail) # NoInfo
                        THEN Override(conda_env, avail) ELSE detect_venv(F, lines),
                        avail, alias_name, abspath(script_path))]

\* remove_alias: [ok, aliases, config_file, batch_dir]
remove_alias(map, file, dir, alias_name) ==
    IF alias_name \notin DOMAIN map
    THEN [ok |-> FALSE, aliases |-> map, config_file |-> file, batch_dir |-> dir]
    ELSE [ok |-> TRUE,
          aliases |-> Unlink(map, alias_name),
          config_file |-> save_aliases(file, Unlink(map, alias_name)),
          batch_dir |-> Unlink(Unlink(dir, BatchFile(alias_name)), alias_name)]

(***************************************************************************)
(* The explored alias stores: a fresh launcher directory, a config file    *)
(* that is missing, unreadable as JSON or empty, at most MaxAliases        *)
(* aliases at a time, and the scripts' directory /work in one of the       *)
(* layouts below.                                                          *)
(***************************************************************************)
MaxAliases == 2

\* run.bat is also the file name of the batch launcher of run.
AliasNames == { <<"r", "u", "n">>, <<"r", "u", "n", ".", "b", "a", "t">>, <<"j", "o", "b">> }

ScriptArgs ==
    { <<"tool.py">>, <<"/", "work", "tool.py">>, <<"lib", "..", "job.py">>,
      <<".", "gone.py">> }

InitAlias ==
    /\ depth = 1
    /\ readable = TRUE
    /\ fs \in { {},
                 {<<0, ".venv", "bin/activate">>},
                 {<<0, ".venv", "bin/activate">>, <<0, ".venv", "bin/python">>},
                 {<<0, "environment.yml">>} }
    /\ content \in IF FirstExisting(fs, 0, CondaEnvFiles) # <<>> THEN NameTexts ELSE {<<>>}
    /\ venv_info = NoInfo
    /\ parsed = <<>>
    /\ sysPkgs = {}
    /\ venvPkgs = <<>>
    /\ condaPkgs = <<>>
    /\ condaAvailable \in BOOLEAN
    /\ report = NoReport
    /\ config_file \in {[kind |-> k, entries |-> <<>>] : k \in {"missing", "invalid", "json"}}
    /\ aliases = load_aliases(config_file)
    /\ batch_dir = <<>>
    /\ history = [op |-> "none", alias_name |-> <<>>, script_path |-> <<>>, ok |-> FALSE,
                  fresh |-> FALSE, before |-> <<>>, round |-> FALSE]
    /\ pc = "start"

\* One call of add_alias.  fresh: the name was not in the store; before: the
\* persisted map before the call.
AddAlias(alias_name, script_path, conda_env) ==
    /\ alias_name \in DOMAIN aliases \/ Cardinality(DOMAIN aliases) < MaxAliases
    /\ \E r \in {add_alias(aliases, config_file, batch_dir, fs, Opened, condaAvailable,
                          alias_name, script_path, conda_env)} :
          /\ aliases' = r.aliases
          /\ config_file' = r.config_file
          /\ batch_dir' = r.batch_dir
    /\ history' =
          [op |-> "add", alias_name |-> alias_name, script_path |-> script_path,
           ok |-> add_alias(aliases, config_file, batch_dir, fs, Opened, condaAvailable,
                            alias_name, script_path, conda_env).ok,
           fresh |-> alias_name \notin DOMAIN load_aliases(config_file),
           before |-> load_aliases(config_file), round |-> FALSE]
    /\ venv_info' = IF abspath(script_path) \in ScriptFiles
                    THEN detect_venv(fs, Opened) ELSE venv_info
    /\ UNCHANGED <<depth, fs, content, readable, parsed, world, report, pc>>

\* One call of remove_alias.  round: it follows a successful add_alias of the
\* same name that was not in the store; before is then the persisted map
\* before that add.
RemoveAlias(alias_name) ==
    /\ \E r \in {remove_alias(aliases, config_file, batch_dir, alias_name)} :
          /\ aliases' = r.aliases
          /\ config_file' = r.config_file
          /\ batch_dir' = r.batch_dir
    /\ history' =
          [op |-> "remove", alias_name |-> alias_name, script_path |-> <<>>,
           ok |-> remove_alias(aliases, config_file, batch_dir, alias_name).ok,
           fresh |-> FALSE,
           before |-> IF history.op = "add" /\ history.alias_name = alias_name
                      THEN history.before ELSE load_aliases(config_file),
           round |-> /\ history.op = "add" /\ history.alias_name = alias_name
                     /\ history.ok /\ history.fresh]
    /\ UNCHANGED <<depth, fs, content, readable, venv_info, parsed, world, report, pc>>

NextAlias ==
    \/ \E alias_name \in AliasNames, script_path \in ScriptArgs, conda_env \in {<<>>, <<"m", "y", "e", "n", "v">>} :
           AddAlias(alias_name, script_path, conda_env)
    \/ \E alias_name \in AliasNames : RemoveAlias(alias_name)

SpecAlias == InitAlias /\ [][NextAlias]_vars

SearchedLevels == {l \in 1..MaxParentLevels : l < depth}

\* C23: detect_venv returns the empty descriptor (None) if and only if the
\* script's directory holds no valid environment, no managed-environment
\* manifest and no plain manifest and no searched ancestor holds a valid
\* environment; every other descriptor has the type 'venv', 'conda' or
\* 'project'.
C23_NullIffNothingFound ==
    Detected =>
        /\ venv_info = NoInfo <=>
              /\ ~HasValidEnv(0) /\ ~HasCondaFile /\ ~HasRequirementsFile
              /\ \A l \in SearchedLevels : ~HasValidEnv(l)
        /\ venv_info # NoInfo => venv_info.type \in {"venv", "conda", "project"}

\* C23 witness: files around the script (a candidate directory without an
\* activate script, manifests of ancestors), and None returned.
C23_Witness == Detected /\ venv_info = NoInfo /\ fs # {}

\* C24: parent_level, when set, is 1, 2 or 3 and names a level that holds a
\* valid environment; and a valid environment at an ancestor level 1..3, the
\* root directory included, is returned when no nearer level holds one.
C24_BoundedWalkFindsEveryLevel ==
    Detected =>
        /\ venv_info.parent_level \in 0..MaxParentLevels
        /\ venv_info.parent_level > 0 =>
              venv_info.path[1] = venv_info.parent_level
                 /\ HasValidEnv(venv_info.parent_level)
        /\ \A l \in 1..MaxParentLevels :
              (l <= depth /\ HasValidEnv(l) /\ \A k \in 0..(l - 1) : ~HasValidEnv(k)) =>
                  venv_info.type = "venv" /\ venv_info.parent_level = l

IsItem(raw) == StartsWith(Trimmed(raw), <<"-", " ">>)

EndsBlock(raw) == Trimmed(raw) # <<>> /\ Indent(raw) = 0 /\ ~IsItem(raw)

\* The item content[j] lies in the block opened by content[d], and no
\* `- pip:` item comes before it.
InBlock(d, j) ==
    /\ d < j /\ j <= Len(content)
    /\ content[d] = <<"d", "e", "p", "e", "n", "d", "e", "n", "c", "i", "e", "s", ":">> /\ content[j] = <<"-", " ", "n", "u", "m", "p", "y">>
    /\ \A k \in (d + 1)..(j - 1) : ~EndsBlock(content[k])
    /\ \A k \in 1..(j - 1) : Trimmed(content[k]) # <<"-", " ", "p", "i", "p", ":">>

\* C25: the block ends only at a non-indented line that is no list item.  An
\* item after blank lines and indented non-list lines of the block is still
\* extracted; an item after a non-indented non-list line, with no other
\* `dependencies:` line, is not.
C25_BlockEndsAtNonIndentedLine ==
    Parsed =>
        /\ (\E d, j \in DOMAIN content : InBlock(d, j)) => <<"n", "u", "m", "p", "y">> \in Range(parsed)
        /\ (/\ Len(content) = 3 /\ content[1] = <<"d", "e", "p", "e", "n", "d", "e", "n", "c", "i", "e", "s", ":">>
            /\ EndsBlock(content[2]) /\ content[2] # <<"d", "e", "p", "e", "n", "d", "e", "n", "c", "i", "e", "s", ":">>
            /\ IsItem(content[3])) => parsed = <<>>

(***************************************************************************)
(* Properties of the remediation.                                          *)
(***************************************************************************)
\* The install commands of the last run, in order.
Installs == Sub(report.calls, InstallCalls)

\* The run came to install the missing packages.
Remedied == CheckRan /\ report.status \in {"installed", "install_failed"}

\* The missing lists the install functions are applied to.
MissingLists == { <<>>, <<<<"n", "u", "m", "p", "y">>>>, <<<<"f", "l", "a", "s", "k">>, <<"n", "u", "m", "p", "y">>>> }

\* C21 as stated: the first conda install is followed by the conda-forge retry
\* if and only if it fails; so a remediation of a managed environment that
\* reported failure has run the retry.
C21_RetryIffFirstFails ==
    (Remedied /\ venv_info.type = "conda" /\ ~report.ok) =>
        Installs = <<"conda_install", "conda_install_forge">>

\* C21 amended: for a missing list that is not empty pip is run exactly once
\* and succeeds iff it exits zero; conda install is run once, and once more
\* with conda-forge iff the first run exits non-zero, success being that one
\* of the two exits zero; when conda cannot be run at all the first call
\* raises, nothing is retried and failure is reported; an empty missing list
\* runs nothing and succeeds.
C21_OneInstallOneRetry ==
    /\ Remedied =>
          /\ report.missing # <<>>
          /\ venv_info.type # "conda" => Installs = <<"pip_install">>
          /\ venv_info.type = "conda" =>
                /\ Installs \in {<<"conda_install">>, <<"conda_install", "conda_install_forge">>}
                /\ ~condaAvailable => (Installs = <<"conda_install">> /\ ~report.ok)
    /\ (CheckRan /\ report.status = "all_installed") =>
          (report.ok /\ report.missing = <<>> /\ Installs = <<>>)
    /\ \A missing \in MissingLists, outcome \in InstallOutcomes :
          /\ install_missing_dependencies(CurrentWorld, SysExe, missing, outcome).calls
                = IF missing = <<>> THEN <<>> ELSE <<"pip_install">>
          /\ install_missing_dependencies(CurrentWorld, SysExe, missing, outcome).ok
                <=> (missing = <<>> \/ outcome = "ok")
    /\ \A missing \in MissingLists, outcome \in InstallOutcomes, forge \in InstallOutcomes :
          \A name \in DOMAIN condaPkgs \cup {<<"m", "y", "e", "n", "v">>} :
             /\ install_conda_dependencies(CurrentWorld, name, missing, outcome, forge).calls
                   = IF missing = <<>> THEN <<>>
                     ELSE IF ~condaAvailable \/ (outcome = "ok" /\ name \in DOMAIN condaPkgs)
                     THEN <<"conda_install">>
                     ELSE <<"conda_install", "conda_install_forge">>
             /\ install_conda_dependencies(CurrentWorld, name, missing, outcome, forge).ok
                   <=> \/ missing = <<>>
                       \/ /\ condaAvailable /\ name \in DOMAIN condaPkgs
                          /\ (outcome = "ok" \/ forge = "ok")

\* C21 witness: a managed environment whose first install failed and whose
\* conda-forge retry succeeded.
C21_Witness ==
    /\ Remedied /\ venv_info.type = "conda" /\ report.ok
    /\ Installs = <<"conda_install", "conda_install_forge">>

(***************************************************************************)
(* Properties of the creation of environments.                             *)
(***************************************************************************)
\* C22: once `python -m venv` has created the environment, no failure of the
\* pip self-upgrade that follows (non-zero exit, timeout) is fatal:
\* create_virtual_environment returns the path of the environment, and a run
\* that created it and ran the upgrade does not end as a failed creation.
C22_UpgradeFailureNotFatal ==
    /\ \A outcome \in VenvOutcomes :
          "pip_upgrade" \in Range(create_virtual_environment(CurrentWorld, outcome).calls) =>
              create_virtual_environment(CurrentWorld, outcome).path = <<0, ".venv">>
    /\ (report.op # "none" /\ "pip_upgrade" \in Range(report.calls)) =>
          report.status # "venv_create_failed"

(***************************************************************************)
(* The explored projects whose manifest cannot be read: the projects of    *)
(* InitDeps that hold a requirements.txt or a managed-environment manifest *)
(* declaring packages, with open() of the manifest raising.                *)
(***************************************************************************)
InitUnreadable ==
    /\ depth = 2
    /\ readable = FALSE
    /\ fs \in {F \in UpTo(DepsPaths, MaxDepsFiles) :
                  FirstExisting(F, 0, CondaEnvFiles) # <<>> \/ <<0, "requirements.txt">> \in F}
    /\ content \in {t \in DepsCondaTexts \cup DepsReqTexts : Required(fs, t) # <<>>}
    /\ venv_info = NoInfo
    /\ parsed = <<>>
    /\ sysPkgs \in SysPkgSets
    /\ venvPkgs \in [VenvsWithPython(fs) -> PkgSets]
    /\ condaAvailable \in IF FirstExisting(fs, 0, CondaEnvFiles) # <<>> THEN BOOLEAN ELSE {FALSE}
    /\ condaPkgs \in
          IF condaAvailable
          THEN UNION {[names -> CondaPkgSets] : names \in SUBSET RegisteredNames}
          ELSE {<<>>}
    /\ report = NoReport
    /\ NoAliasStore
    /\ pc = "start"

SpecUnreadable == InitUnreadable /\ [][NextDeps]_vars

\* C26: a manifest that exists and cannot be read is not taken for an empty
\* one: neither check_dependencies nor auto_setup_dependencies reports
\* success, and none ends with 'no dependencies found'.
C26_UnreadableIsHardFailure ==
    (report.op # "none" /\ ~readable /\ find_requirements_file(fs) # <<>>) =>
        (~report.ok /\ report.status # "no_dependencies")

\* C27: check_dependencies asked to install, for a managed-environment
\* manifest whose named environment is not registered, calls
\* create_conda_environment before it lists or installs anything: a run that
\* came to list or install has the named environment registered, and a
\* creation it ran came first.
C27_ManagedCreatedBeforeReconciling ==
    (/\ CheckRan /\ report.install /\ venv_info.type = "conda"
     /\ venv_info.conda_env_name # <<>> /\ condaAvailable
     /\ Range(report.calls) \cap (InventoryCalls \cup InstallCalls) # {}) =>
        /\ venv_info.conda_env_name \in DOMAIN condaPkgs
        /\ \A c \in Range(report.calls) \cap (InventoryCalls \cup InstallCalls) :
              "conda_env_create" \in Range(report.calls) =>
                  FirstCall(report.calls, "conda_env_create") < FirstCall(report.calls, c)

\* C28: whenever check_dependencies found an isolated or a managed
\* environment, the interpreter whose packages it lists and with which it
\* runs pip install is the interpreter of that environment, never
\* sys.executable.
C28_InterpreterOfTheEnvironment ==
    (/\ CheckRan /\ venv_info.type \in {"venv", "conda"}
     /\ Range(report.calls) \cap {"pip_list", "pip_install"} # {}) =>
        /\ report.exe # SysExe
        /\ report.exe = IF venv_info.type = "venv" THEN VenvExe(venv_info.path)
                        ELSE CondaExe(venv_info.conda_env_name)

\* C29: when auto_setup_dependencies reports success for a manifest with a
\* non-empty required list, detect_venv on the filesystem it leaves returns an
\* isolated environment with its activation script, or a managed environment
\* whose name conda has registered; a `.venv` without activation script is
\* not reported as ready.
C29_SetupLeavesUsableEnvironment ==
    (SetupRan /\ report.ok /\ report.required # <<>>) =>
        \/ /\ detect_venv(fs, Opened).type = "venv"
           /\ detect_venv(fs, Opened).activate_script # <<>>
           /\ detect_venv(fs, Opened).activate_script \in fs
        \/ /\ detect_venv(fs, Opened).type = "conda"
           /\ detect_venv(fs, Opened).conda_env_name \in DOMAIN condaPkgs

====
